---- MODULE Spec2Model ----
(***************************************************************************)
(* State-machine model of the quantum2017 persistence / authorization      *)
(* layer: the MySQL tables of database/schema.sql and admin_schema.sql,    *)
(* the data functions of lib/db-auth.ts, the server actions of             *)
(* app/actions.ts and the admin login route.                               *)
(*                                                                         *)
(* A table is a function from row ids to rows.  A data function is an      *)
(* operator from the tables it reads to an outcome record holding the      *)
(* error it throws ("none" when it returns) and the tables it wrote.  A    *)
(* server action is one TLA+ action that runs its data functions in the    *)
(* order of the source and records the call and its outcome in `last`.     *)
(***************************************************************************)
EXTENDS Integers, Sequences, FiniteSets, TLC

VARIABLES
  users,          \* table users:          id -> row
  admins,         \* table admins:         id -> row
  subscriptions,  \* table subscriptions:  id -> row
  user_sessions,  \* table user_sessions:  id -> row
  audit_logs,     \* table audit_logs: rows in insertion order
  site_settings,  \* table site_settings: rows in insertion order
  packages,       \* table packages:       id -> row
  now,            \* the database clock, NOW()
  uuid,           \* number of ids handed out so far (randomUUID is fresh)
  accounts,       \* history: id -> role of every account ever created
  lastPassword,   \* history: account id -> password most recently set for it
  calls,          \* the in-flight server actions of the statement-level runs
  last            \* the last completed call and its outcome

db == <<users, admins, subscriptions, user_sessions, audit_logs, site_settings,
        packages>>
vars == <<users, admins, subscriptions, user_sessions, audit_logs,
          site_settings, packages, now, uuid, accounts, lastPassword, calls,
          last>>

----------------------------------------------------------------------------
\* Bounds of the model.

MaxAudit == 4        \* audit rows written in a run of Spec
MaxAcctAudit == 2    \* audit rows written in a run of SpecAccounts
MaxAdminAudit == 2   \* audit rows written in a run of SpecAdmin
MaxTime == 3         \* clock ticks in a run of SpecSession
MaxSessions == 2     \* sessions created in a run of SpecSession
MaxCalls == 2        \* server actions started in a run of SpecRace
MaxLoginAudit == 2   \* audit rows written in a run of SpecLogin

----------------------------------------------------------------------------
\* Values.

NULL == 0            \* SQL NULL / JS null in an id column; ids start at 1
Undefined == 0 - 1   \* JS undefined as a user id
BCRYPT_ROUNDS == 10
MinPasswordLength == 6
RenewalMonths == 1
IpAddressWidth == 45

Plans == {"Starter", "Pro", "Expert"}
AdminRoles == {"admin", "superadmin"}

AdminEmail == "admin@quantumalphaindia.com"
SeparateAdminEmail == "admin-separate@quantumalphaindia.com"
SchemaAdminId == 1        \* '00000000-0000-0000-0000-000000000001'
SeparateAdminId == 2      \* '00000000-0000-0000-0000-000000000002'

EmptyTable == [x \in {} |-> NULL]
Upd(f, k, v) == [x \in DOMAIN f \cup {k} |-> IF x = k THEN v ELSE f[x]]
Del(f, K) == [x \in DOMAIN f \ K |-> f[x]]
\* UPDATE t SET <data> WHERE id = k  (no row matched: nothing changes)
Patch(f, k, data) ==
  IF k \in DOMAIN f
  THEN [f EXCEPT ![k] = [c \in DOMAIN f[k] |->
                           IF c \in DOMAIN data THEN data[c] ELSE f[k][c]]]
  ELSE f
\* updated_at TIMESTAMP ... ON UPDATE CURRENT_TIMESTAMP: set on every row an
\* UPDATE changed
OnUpdate(old, new, t) ==
  [k \in DOMAIN new |-> IF new[k] # old[k] THEN [new[k] EXCEPT !.updated_at = t]
                        ELSE new[k]]

----------------------------------------------------------------------------
\* Bearer tokens.  A token is absent, unverifiable (malformed, badly signed
\* or expired) or carries the payload {userId, role} it was signed with.

NoToken == [kind |-> "none", userId |-> NULL, role |-> "-"]
BadToken == [kind |-> "bad", userId |-> NULL, role |-> "-"]
Jwt(id, role) == [kind |-> "jwt", userId |-> id, role |-> role]

\* The tokens a caller can present in the current state: a token is signed
\* with its account's id and role and outlives the account's row.
Tokens == {NoToken, BadToken} \cup {Jwt(id, accounts[id]) : id \in DOMAIN accounts}

\* verifyJWT: the payload of a good token; for any other token it either
\* returns null or throws (both are handled by its callers).
verifyJWT(token) ==
  IF token.kind = "jwt" THEN {[thrown |-> FALSE, payload |-> {token}]}
  ELSE {[thrown |-> FALSE, payload |-> {}], [thrown |-> TRUE, payload |-> {}]}

\* getCurrentUserId: the outcomes [err, userId] it can have on a token.
getCurrentUserId(token) ==
  IF token.kind = "none" THEN {[err |-> "No token provided", userId |-> Undefined]}
  ELSE {IF v.thrown THEN [err |-> "Invalid token", userId |-> Undefined]
        ELSE IF v.payload # {}
          THEN [err |-> "none", userId |-> (CHOOSE p \in v.payload : TRUE).userId]
          ELSE [err |-> "none", userId |-> Undefined]
        : v \in verifyJWT(token)}

\* a guard that only checks the token, not the role in it
verifyAdminRole_any_role(token) ==
  IF token.kind = "none" THEN {[err |-> "No token provided", userId |-> Undefined]}
  ELSE {IF v.thrown THEN [err |-> "Invalid token", userId |-> Undefined]
        ELSE IF v.payload # {}
          THEN [err |-> "none", userId |-> (CHOOSE p \in v.payload : TRUE).userId]
          ELSE [err |-> "Unauthorized or insufficient permissions",
                userId |-> Undefined]
        : v \in verifyJWT(token)}

verifyAdminRole(token) ==
  IF token.kind = "none" THEN {[err |-> "No token provided", userId |-> Undefined]}
  ELSE {IF v.thrown THEN [err |-> "Invalid token", userId |-> Undefined]
        ELSE IF v.payload # {} /\ (CHOOSE p \in v.payload : TRUE).role \in AdminRoles
          THEN [err |-> "none", userId |-> (CHOOSE p \in v.payload : TRUE).userId]
          ELSE [err |-> "Unauthorized or insufficient permissions",
                userId |-> Undefined]
        : v \in verifyJWT(token)}

----------------------------------------------------------------------------
\* Passwords.

hashPassword(password) ==
  [alg |-> "bcrypt", rounds |-> BCRYPT_ROUNDS, digest |-> password]
verifyPassword(password, passwordHash) ==
  hashPassword(password).digest = passwordHash.digest

----------------------------------------------------------------------------
\* Schema constraints.  A write is accepted when the table it produces
\* satisfies them; otherwise the statement fails and the table is unchanged.

\* an email column without its UNIQUE constraint
users_email_index(usrs) == TRUE

\* users.email UNIQUE
users_email_unique(usrs) ==
  \A a, b \in DOMAIN usrs : usrs[a].email = usrs[b].email => a = b

\* a plain INDEX in place of the UNIQUE KEY
index_active_subscription(subs) == TRUE

\* UNIQUE KEY unique_active_subscription (user_id, status)
unique_active_subscription(subs) ==
  \A a, b \in DOMAIN subs :
    (subs[a].user_id = subs[b].user_id /\ subs[a].status = subs[b].status)
      => a = b

\* FOREIGN KEY (user_id) REFERENCES users(id), user_id NOT NULL
subscriptions_user_fk(usrs, userId) == userId \in DOMAIN usrs

----------------------------------------------------------------------------
\* Data functions (lib/db-auth.ts).

\* createUser: INSERT INTO users; ER_DUP_ENTRY becomes 'Email already exists'.
createUser(usrs, id, data, t) ==
  LET row == [email |-> data.email,
              password_hash |-> hashPassword(data.password),
              name |-> data.name,
              role |-> "user",
              plan |-> IF data.plan = "" THEN "Starter" ELSE data.plan,
              status |-> "Active",
              updated_at |-> t,
              last_login |-> NULL]
      new == Upd(usrs, id, row)
  IN IF users_email_unique(new)
     THEN [err |-> "none", users |-> new]
     ELSE [err |-> "Email already exists", users |-> usrs]

updateUser_ignores_plan(usrs, id, data, t) ==
  LET cols == DOMAIN data \cap {"name", "email", "status"}
      new == OnUpdate(usrs, Patch(usrs, id, [c \in cols |-> data[c]]), t)
  IN IF cols = {} THEN [err |-> "none", users |-> usrs]
     ELSE IF users_email_unique(new)
       THEN [err |-> "none", users |-> new]
       ELSE [err |-> "ER_DUP_ENTRY", users |-> usrs]

updateUser_any_column(usrs, id, data, t) ==
  LET new == OnUpdate(usrs, Patch(usrs, id, data), t)
  IN IF DOMAIN data = {} THEN [err |-> "none", users |-> usrs]
     ELSE IF users_email_unique(new)
       THEN [err |-> "none", users |-> new]
       ELSE [err |-> "ER_DUP_ENTRY", users |-> usrs]

\* updateUser: UPDATE users SET <the fields present in data> WHERE id = ?
updateUser(usrs, id, data, t) ==
  LET cols == DOMAIN data \cap {"name", "email", "plan", "status"}
      new == OnUpdate(usrs, Patch(usrs, id, [c \in cols |-> data[c]]), t)
  IN IF cols = {} THEN [err |-> "none", users |-> usrs]
     ELSE IF users_email_unique(new)
       THEN [err |-> "none", users |-> new]
       ELSE [err |-> "ER_DUP_ENTRY", users |-> usrs]

getSubscription_any_user(subs, userId) ==
  LET rows == {s \in DOMAIN subs : subs[s].status = "Active"}
  IN IF rows = {} THEN {NULL} ELSE rows

\* getSubscription: SELECT ... WHERE user_id = ? AND status = 'Active' LIMIT 1
\* The ids of the rows the query can return (LIMIT 1 picks any matching row),
\* NULL standing for no row.
getSubscription(subs, userId) ==
  LET rows == {s \in DOMAIN subs :
                 subs[s].user_id = userId /\ subs[s].status = "Active"}
  IN IF rows = {} THEN {NULL} ELSE rows

\* The clock counts days; day 1 is 2024-01-01 (UTC).
DaysInMonth(year, month) ==
  IF month = 2
  THEN (IF year % 4 = 0 /\ (year % 100 # 0 \/ year % 400 = 0) THEN 29 ELSE 28)
  ELSE IF month \in {4, 6, 9, 11} THEN 30 ELSE 31

\* the day a Date with these fields denotes; a day past the end of its month
\* runs on into the following month, as in new Date(year, month, day)
RECURSIVE DayNumber(_, _, _)
DayNumber(year, month, day) ==
  IF year = 2024 /\ month = 1 THEN day
  ELSE LET y == IF month = 1 THEN year - 1 ELSE year
           m == IF month = 1 THEN 12 ELSE month - 1
       IN DayNumber(y, m, DaysInMonth(y, m)) + day

\* the calendar date of day n, counting on from the first of a month
RECURSIVE DateFrom(_, _, _)
DateFrom(year, month, n) ==
  IF n <= DaysInMonth(year, month) THEN [year |-> year, month |-> month, day |-> n]
  ELSE DateFrom(IF month = 12 THEN year + 1 ELSE year,
                IF month = 12 THEN 1 ELSE month + 1,
                n - DaysInMonth(year, month))
\* toISOString / toSqlDatetime, date part: YYYY-MM-DD of day n
toSqlDatetime(n) == DateFrom(2024, 1, n)

\* date.setMonth(month): year and day of month kept, month replaced (a month
\* past December is a month of the next year), the result normalised
setMonth(n, month) ==
  LET date == toSqlDatetime(n)
  IN DayNumber(date.year + (month - 1) \div 12, ((month - 1) % 12) + 1, date.day)

\* the row createSubscription inserts: renewalDate = new Date();
\* renewalDate.setMonth(renewalDate.getMonth() + 1); start_date NOW()
SubscriptionRow(userId, plan, t) ==
  [user_id |-> userId, plan |-> plan, status |-> "Active",
   renewal_date |-> setMonth(t, toSqlDatetime(t).month + RenewalMonths),
   start_date |-> t, updated_at |-> t]

\* an insert that ignores the duplicate key (INSERT IGNORE semantics kept the row)
createSubscription_unchecked(subs, usrs, id, userId, plan, t) ==
  IF ~subscriptions_user_fk(usrs, userId)
  THEN [err |-> "ER_NO_REFERENCED_ROW", subscriptions |-> subs]
  ELSE [err |-> "none",
        subscriptions |-> Upd(subs, id, SubscriptionRow(userId, plan, t))]

\* createSubscription: INSERT INTO subscriptions (..., 'Active', ...)
createSubscription(subs, usrs, id, userId, plan, t) ==
  LET new == Upd(subs, id, SubscriptionRow(userId, plan, t))
  IN IF ~subscriptions_user_fk(usrs, userId)
     THEN [err |-> "ER_NO_REFERENCED_ROW", subscriptions |-> subs]
     ELSE IF ~unique_active_subscription(new)
       THEN [err |-> "ER_DUP_ENTRY", subscriptions |-> subs]
       ELSE [err |-> "none", subscriptions |-> new]

\* updateSubscription: UPDATE subscriptions SET <fields> WHERE id = ?
updateSubscription(subs, subscriptionId, data, t) ==
  LET cols == DOMAIN data \cap {"plan", "status", "renewal_date"}
      \* toSqlDatetime(new Date(data.renewal_date)), as MySQL reads it back
      value(c) == IF c = "renewal_date"
                  THEN LET d == toSqlDatetime(data[c])
                       IN DayNumber(d.year, d.month, d.day)
                  ELSE data[c]
      new == OnUpdate(subs, Patch(subs, subscriptionId, [c \in cols |-> value(c)]), t)
  IN IF cols = {} THEN [err |-> "none", subscriptions |-> subs]
     ELSE IF ~unique_active_subscription(new)
       THEN [err |-> "ER_DUP_ENTRY", subscriptions |-> subs]
       ELSE [err |-> "none", subscriptions |-> new]

\* logAuditAction, its lookup: the actor is stored only when a users row has
\* its id at lookup time.
auditActor(usrs, userId) ==
  IF userId # Undefined /\ userId # NULL /\ userId \in DOMAIN usrs
  THEN userId ELSE NULL
\* logAuditAction, its INSERT INTO audit_logs
auditInsert(logs, id, userIdToInsert, data) ==
  Append(logs, [id |-> id,
                user_id |-> userIdToInsert,
                action |-> data.action,
                entity_type |-> data.entityType,
                entity_id |-> data.entityId,
                changes |-> data.changes,
                ip_address |-> IF "ipAddress" \in DOMAIN data /\ data.ipAddress # ""
                               THEN {data.ipAddress} ELSE {}])
logAuditAction(logs, usrs, id, data) ==
  auditInsert(logs, id, auditActor(usrs, data.userId), data)

\* ip_address VARCHAR(45): whether the value of the INSERT fits the column
ip_address_fits(data) ==
  "ipAddress" \notin DOMAIN data \/ Len(data.ipAddress) <= IpAddressWidth

\* logAuditAction with the outcomes of its INSERT: a value too long for
\* ip_address is rejected by a server in strict SQL mode (the error leaves
\* logAuditAction, whose INSERT is outside its try) and cut to the column
\* width by a server that is not
logAuditActionOutcomes(logs, usrs, id, data) ==
  IF ip_address_fits(data)
  THEN {[err |-> "none", audit_logs |-> logAuditAction(logs, usrs, id, data)]}
  ELSE {[err |-> "ER_DATA_TOO_LONG", audit_logs |-> logs],
        [err |-> "none",
         audit_logs |-> logAuditAction(logs, usrs, id,
                          [data EXCEPT !.ipAddress = SubSeq(data.ipAddress, 1, IpAddressWidth)])]}

\* updatePassword: rejects a short password, else
\* UPDATE users SET password_hash = ?, updated_at = CURRENT_TIMESTAMP WHERE id = ?
updatePassword(usrs, userId, newPassword, t) ==
  IF newPassword = "" \/ Len(newPassword) < MinPasswordLength
  THEN [err |-> "Password must be at least 6 characters", users |-> usrs]
  ELSE [err |-> "none",
        users |-> Patch(usrs, userId, [password_hash |-> hashPassword(newPassword),
                                       updated_at |-> t])]

\* updateLastLogin: UPDATE users SET last_login = NOW() WHERE id = ?
updateLastLogin(usrs, id, t) == OnUpdate(usrs, Patch(usrs, id, [last_login |-> t]), t)

\* user_sessions.session_token UNIQUE
session_token_unique(sess) ==
  \A a, b \in DOMAIN sess : sess[a].session_token = sess[b].session_token => a = b

\* FOREIGN KEY (user_id) REFERENCES users(id) of user_sessions
user_sessions_user_fk(sess, usrs) == \A a \in DOMAIN sess : sess[a].user_id \in DOMAIN usrs

\* createSession: INSERT INTO user_sessions; returns the new id
createSession(sess, usrs, id, userId, sessionToken, expiresAt, t) ==
  LET row == [user_id |-> userId, session_token |-> sessionToken,
              created_at |-> t, last_activity |-> t, expires_at |-> expiresAt]
      new == Upd(sess, id, row)
  IN IF ~session_token_unique(new)
       THEN [err |-> "ER_DUP_ENTRY", user_sessions |-> sess]
     ELSE IF ~user_sessions_user_fk(new, usrs)
       THEN [err |-> "ER_NO_REFERENCED_ROW", user_sessions |-> sess]
     ELSE [err |-> "none", user_sessions |-> new]

\* expires_at >= NOW() in place of expires_at > NOW()
getSessionByToken_inclusive(sess, sessionToken, t) ==
  LET results == {i \in DOMAIN sess :
                    /\ sess[i].session_token = sessionToken
                    /\ sess[i].expires_at # NULL
                    /\ sess[i].expires_at >= t}
  IN IF results # {} THEN results ELSE {NULL}

\* getSessionByToken: SELECT ... WHERE session_token = ? AND expires_at > NOW();
\* the ids results[0] can be, or NULL (a NULL expires_at never compares true)
getSessionByToken(sess, sessionToken, t) ==
  LET results == {i \in DOMAIN sess :
                    /\ sess[i].session_token = sessionToken
                    /\ sess[i].expires_at # NULL
                    /\ sess[i].expires_at > t}
  IN IF results # {} THEN results ELSE {NULL}

\* updateSessionActivity: UPDATE user_sessions SET last_activity = NOW() WHERE id = ?
updateSessionActivity(sess, sessionId, t) == Patch(sess, sessionId, [last_activity |-> t])

\* deleteSession: DELETE FROM user_sessions WHERE id = ?
deleteSession(sess, sessionId) == Del(sess, {sessionId})

\* expires_at < NOW() in place of expires_at <= NOW()
deleteExpiredSessions_strict(sess, t) ==
  Del(sess, {i \in DOMAIN sess : sess[i].expires_at # NULL /\ sess[i].expires_at < t})

\* deleteExpiredSessions: DELETE FROM user_sessions WHERE expires_at <= NOW()
deleteExpiredSessions(sess, t) ==
  Del(sess, {i \in DOMAIN sess : sess[i].expires_at # NULL /\ sess[i].expires_at <= t})

\* getAllUsers: SELECT id, email, name, role, plan, status FROM users
\* (the rows; their order is not modelled)
getAllUsers(usrs) ==
  {[id |-> i, email |-> usrs[i].email, name |-> usrs[i].name,
    role |-> usrs[i].role, plan |-> usrs[i].plan, status |-> usrs[i].status] :
     i \in DOMAIN usrs}

\* getAllUsersWithSubscription: users LEFT JOIN their Active subscriptions; a
\* user without one has a null renewal_date (the empty set)
getAllUsersWithSubscription(usrs, subs) ==
  LET active(i) == {x \in DOMAIN subs : subs[x].user_id = i /\ subs[x].status = "Active"}
      row(i, renewal) ==
        [id |-> i, email |-> usrs[i].email, name |-> usrs[i].name,
         role |-> usrs[i].role, plan |-> usrs[i].plan, status |-> usrs[i].status,
         renewal_date |-> renewal]
  IN UNION {IF active(i) = {} THEN {row(i, {})}
            ELSE {row(i, {subs[x].renewal_date}) : x \in active(i)} : i \in DOMAIN usrs}

\* JavaScript values a features field can hold: an array of strings, a string
Arr(items) == [type |-> "array", items |-> items]
Str(s) == [type |-> "string", items |-> <<s>>]
\* if (v): every array is truthy, a string unless it is empty
Truthy(v) == ~(v.type = "string" /\ v.items = <<"">>)

\* a stored text: the serialization of a value, or text s that is not JSON
\* ([valid |-> FALSE, value |-> Str(s)], which JSON.stringify never produces)
JSONstringify(v) == [valid |-> TRUE, value |-> v]
\* JSON.parse: the value a serialization denotes, none when it throws
JSONparse(text) == IF text.valid THEN {text.value} ELSE {}

\* the documents of site_settings that read back falsy
FalsyDocuments == {"0", "false", "null", "\"\""}

\* getSiteSettings: SELECT data FROM site_settings LIMIT 1; the values
\* results[0].data can be, none for an empty table
getSiteSettings(settings) == {settings[i].data : i \in DOMAIN settings}

\* UPDATE site_settings SET data = ?
updateSettings(settings, json) == [i \in DOMAIN settings |-> [data |-> json]]
\* INSERT INTO site_settings (data) VALUES (?)
insertSettings(settings, json) == Append(settings, [data |-> json])

\* updateSiteSettings: UPDATE every row when the row read is truthy, else
\* INSERT a row; the tables that can result
updateSiteSettings(settings, newData) ==
  IF getSiteSettings(settings) = {} THEN {insertSettings(settings, newData)}
  ELSE {IF existing \notin FalsyDocuments
        THEN updateSettings(settings, newData)
        ELSE insertSettings(settings, newData)
        : existing \in getSiteSettings(settings)}

\* packages.name UNIQUE
packages_name_unique(pkgs) ==
  \A a, b \in DOMAIN pkgs : pkgs[a].name = pkgs[b].name => a = b

\* a || b of JavaScript on an optional text field: absent or empty gives b
OrElse(data, field, default) ==
  IF field \in DOMAIN data /\ data[field] # "" THEN data[field] ELSE default

\* let features = []; if (pkg.features) { try { features = JSON.parse(pkg.features) }
\* catch { features = [pkg.features] } }
parseFeatures(stored) ==
  IF stored = {} THEN Arr(<<>>)
  ELSE LET text == CHOOSE f \in stored : TRUE
       IN IF JSONparse(text) # {} THEN CHOOSE v \in JSONparse(text) : TRUE
          ELSE Arr(text.value.items)

\* the Package a row reads back as (nullable columns are sets, features parsed)
PackagePublic(pkgs, id) ==
  [id |-> id, name |-> pkgs[id].name, description |-> pkgs[id].description,
   price |-> pkgs[id].price, currency |-> pkgs[id].currency,
   features |-> parseFeatures(pkgs[id].features),
   active |-> pkgs[id].active, display_order |-> pkgs[id].display_order]

\* the INSERT on a packages table without the unique key on name
createPackage_unchecked(pkgs, id, data, t) ==
  [err |-> "none",
   packages |->
     Upd(pkgs, id,
         [name |-> data.name,
          description |-> IF "description" \in DOMAIN data /\ data.description # ""
                          THEN {data.description} ELSE {},
          price |-> data.price,
          currency |-> OrElse(data, "currency", "USD"),
          features |-> IF "features" \in DOMAIN data /\ Truthy(data.features)
                       THEN {JSONstringify(data.features)} ELSE {},
          display_order |-> IF "display_order" \in DOMAIN data
                            THEN data.display_order ELSE 0,
          created_by |-> {},
          active |-> TRUE,
          created_at |-> t,
          updated_at |-> t])]

\* createPackage: INSERT INTO packages (..., TRUE)
createPackage(pkgs, id, data, t) ==
  LET row == [name |-> data.name,
              description |-> IF "description" \in DOMAIN data /\ data.description # ""
                              THEN {data.description} ELSE {},
              price |-> data.price,
              currency |-> OrElse(data, "currency", "USD"),
              features |-> IF "features" \in DOMAIN data /\ Truthy(data.features)
                           THEN {JSONstringify(data.features)} ELSE {},
              display_order |-> IF "display_order" \in DOMAIN data
                                THEN data.display_order ELSE 0,
              created_by |-> {},
              active |-> TRUE,
              created_at |-> t,
              updated_at |-> t]
      new == Upd(pkgs, id, row)
  IN IF packages_name_unique(new)
     THEN [err |-> "none", packages |-> new]
     ELSE [err |-> "Package \"" \o data.name \o "\" already exists", packages |-> pkgs]

\* SELECT * FROM packages WHERE active = TRUE, whatever activeOnly is
getAllPackages_active_only(pkgs, activeOnly) ==
  {PackagePublic(pkgs, i) : i \in {j \in DOMAIN pkgs : pkgs[j].active}}

\* getAllPackages: SELECT * FROM packages [WHERE active = TRUE]
getAllPackages(pkgs, activeOnly) ==
  {PackagePublic(pkgs, i) : i \in {j \in DOMAIN pkgs : ~activeOnly \/ pkgs[j].active}}

\* getPackageById: the package with the id, none if there is no such row
getPackageById(pkgs, id) ==
  IF id \in DOMAIN pkgs THEN {PackagePublic(pkgs, id)} ELSE {}

\* getPackageByName: SELECT * FROM packages WHERE name = ?, results[0]
getPackageByName(pkgs, name) ==
  {PackagePublic(pkgs, i) : i \in {j \in DOMAIN pkgs : pkgs[j].name = name}}

\* the UPDATE of updatePackage on a table without the unique key on name
updatePackage_unchecked(pkgs, id, data, t) ==
  LET value(c) == IF c = "description"
                    THEN (IF data[c] # "" THEN {data[c]} ELSE {})
                  ELSE IF c = "features" THEN {JSONstringify(data[c])}
                  ELSE data[c]
  IN [err |-> "none",
      packages |-> IF DOMAIN data = {} THEN pkgs
                   ELSE Patch(pkgs, id, [c \in DOMAIN data \cup {"updated_at"} |->
                                           IF c = "updated_at" THEN t ELSE value(c)])]

\* updatePackage: UPDATE packages SET <fields>, updated_at = CURRENT_TIMESTAMP
\* WHERE id = ?; no statement when data has no field
updatePackage(pkgs, id, data, t) ==
  LET cols == DOMAIN data \cap {"name", "description", "price", "currency",
                                "features", "active", "display_order"}
      value(c) == IF c = "description"
                    THEN (IF data[c] # "" THEN {data[c]} ELSE {})
                  ELSE IF c = "features" THEN {JSONstringify(data[c])}
                  ELSE data[c]
      new == Patch(pkgs, id, [c \in cols \cup {"updated_at"} |->
                                 IF c = "updated_at" THEN t ELSE value(c)])
  IN IF cols = {} THEN [err |-> "none", packages |-> pkgs]
     ELSE IF packages_name_unique(new)
       THEN [err |-> "none", packages |-> new]
       ELSE [err |-> "A package with this name already exists", packages |-> pkgs]

\* deletePackage: DELETE FROM packages WHERE id = ?
deletePackage(pkgs, id) == Del(pkgs, {id})

\* deleteUser: DELETE FROM users WHERE id = ?
deleteUser(usrs, id) == Del(usrs, {id})
\* ON DELETE CASCADE of subscriptions.user_id and user_sessions.user_id
cascade_user_delete(t, id) == Del(t, {r \in DOMAIN t : t[r].user_id = id})
\* ON DELETE CASCADE in place of ON DELETE SET NULL
audit_cascade_user_delete(logs, id) == SelectSeq(logs, LAMBDA r : r.user_id # id)

\* ON DELETE SET NULL of audit_logs.user_id
set_null_user_delete(logs, id) ==
  [i \in DOMAIN logs |->
     IF logs[i].user_id = id THEN [logs[i] EXCEPT !.user_id = NULL] ELSE logs[i]]

----------------------------------------------------------------------------
\* The record of a completed call.
Call(op, token, arg, err, ret) ==
  [op |-> op, token |-> token, arg |-> arg, err |-> err, ret |-> ret, at |-> now,
   status |-> NULL]

SchemaUsers ==
  (SchemaAdminId :> [email |-> AdminEmail,
                     password_hash |-> hashPassword("admin@123"),
                     name |-> "Quantum Alpha Admin",
                     role |-> "admin",
                     plan |-> "Starter",
                     status |-> "Active",
                     updated_at |-> 1,
                     last_login |-> NULL])
SchemaAdmins ==
  (SeparateAdminId :> [email |-> SeparateAdminEmail,
                       password_hash |-> hashPassword("admin@123"),
                       name |-> "Separate Admin",
                       role |-> "superadmin",
                       status |-> "Active",
                       last_login |-> NULL])
InitialState(adms, t) ==
  /\ users = SchemaUsers
  /\ admins = adms
  /\ subscriptions = EmptyTable
  /\ user_sessions = EmptyTable
  /\ audit_logs = <<>>
  /\ site_settings = <<>>
  /\ packages = EmptyTable
  /\ now = t
  /\ uuid = 2
  /\ accounts = (SchemaAdminId :> "admin") @@ (SeparateAdminId :> "superadmin")
  /\ lastPassword = (SchemaAdminId :> "admin@123") @@ (SeparateAdminId :> "admin@123")
  /\ calls = EmptyTable
  /\ last = Call("init", NoToken, NULL, "none", {})

Init == InitialState(SchemaAdmins, 1)

----------------------------------------------------------------------------
\* Server actions (app/actions.ts), each run to completion in one step.

\* What a query bound to an undefined user id does: the driver rejects the
\* bind parameter, or sends NULL, which matches no row.
UndefinedBind == {"rejected", "null"}

UserPublic(usrs, id) ==
  [id |-> id, email |-> usrs[id].email, name |-> usrs[id].name,
   role |-> usrs[id].role, plan |-> usrs[id].plan, status |-> usrs[id].status]
SubPublic(subs, id) ==
  [id |-> id, plan |-> subs[id].plan, status |-> subs[id].status,
   renewal_date |-> subs[id].renewal_date]

Fail(op, token, arg, err) ==
  /\ last' = Call(op, token, arg, err, {})
  /\ UNCHANGED <<db, now, uuid, accounts, lastPassword, calls>>

getUserSubscription(token) ==
  \E g \in getCurrentUserId(token), bind \in UndefinedBind :
    IF g.err # "none" THEN Fail("getUserSubscription", token, NULL, g.err)
    ELSE IF g.userId = Undefined /\ bind = "rejected"
      THEN Fail("getUserSubscription", token, NULL, "ER_BIND_UNDEFINED")
      ELSE \E subscription \in getSubscription(subscriptions, g.userId) :
           /\ last' = Call("getUserSubscription", token, NULL, "none",
                           IF subscription = NULL THEN {}
                           ELSE {SubPublic(subscriptions, subscription)})
           /\ UNCHANGED <<db, now, uuid, accounts, lastPassword, calls>>

activateSubscription(token, planName) ==
  \E g \in getCurrentUserId(token) :
    LET id == uuid + 1
        c == createSubscription(subscriptions, users, id, g.userId, planName, now)
        u == updateUser(users, g.userId, [plan |-> planName], now)
    IN IF g.err # "none" THEN Fail("activateSubscription", token, planName, g.err)
       ELSE IF c.err # "none" THEN Fail("activateSubscription", token, planName, c.err)
       ELSE /\ subscriptions' = c.subscriptions
            /\ users' = u.users
            /\ audit_logs' = logAuditAction(audit_logs, u.users, uuid + 2,
                                [userId |-> g.userId,
                                 action |-> "subscription_activated",
                                 entityType |-> "subscription",
                                 entityId |-> id,
                                 changes |-> [plan |-> planName]])
            /\ uuid' = uuid + 2
            /\ last' = Call("activateSubscription", token, planName, "none",
                            {SubPublic(c.subscriptions, id)})
            /\ UNCHANGED <<admins, user_sessions, site_settings, packages, now,
                           accounts, lastPassword, calls>>

cancelSubscription(token, subscriptionId) ==
  \E g \in getCurrentUserId(token), bind \in UndefinedBind :
   \E subscription \in getSubscription(subscriptions, g.userId) :
    LET s == updateSubscription(subscriptions, subscriptionId, [status |-> "Cancelled"], now)
        u == updateUser(users, g.userId, [plan |-> "Starter"], now)
    IN IF g.err # "none" THEN Fail("cancelSubscription", token, subscriptionId, g.err)
       ELSE IF g.userId = Undefined /\ bind = "rejected"
         THEN Fail("cancelSubscription", token, subscriptionId, "ER_BIND_UNDEFINED")
       ELSE IF subscription = NULL \/ subscription # subscriptionId
         THEN Fail("cancelSubscription", token, subscriptionId,
                   "Subscription not found or access denied")
       ELSE IF s.err # "none"
         THEN Fail("cancelSubscription", token, subscriptionId, s.err)
       ELSE /\ subscriptions' = s.subscriptions
            /\ users' = u.users
            /\ audit_logs' = logAuditAction(audit_logs, u.users, uuid + 1,
                                [userId |-> g.userId,
                                 action |-> "subscription_cancelled",
                                 entityType |-> "subscription",
                                 entityId |-> subscriptionId,
                                 changes |-> [status |-> "Cancelled"]])
            /\ uuid' = uuid + 1
            /\ last' = Call("cancelSubscription", token, subscriptionId, "none", {})
            /\ UNCHANGED <<admins, user_sessions, site_settings, packages, now,
                           accounts, lastPassword, calls>>

addUser(token, data) ==
  \E a \in verifyAdminRole(token) :
    LET id == uuid + 1
        c == createUser(users, id, data, now)
    IN IF a.err # "none" THEN Fail("addUser", token, data, a.err)
       ELSE IF data.password = ""
         THEN Fail("addUser", token, data, "Password is required to create a new user.")
       ELSE IF c.err # "none" THEN Fail("addUser", token, data, c.err)
       ELSE /\ users' = c.users
            /\ audit_logs' = logAuditAction(audit_logs, c.users, uuid + 2,
                                [userId |-> Undefined,
                                 action |-> "user_created",
                                 entityType |-> "user",
                                 entityId |-> id,
                                 changes |-> [email |-> data.email, name |-> data.name]])
            /\ uuid' = uuid + 2
            /\ accounts' = Upd(accounts, id, "user")
            /\ lastPassword' = Upd(lastPassword, id, data.password)
            /\ last' = Call("addUser", token, data, "none", {UserPublic(c.users, id)})
            /\ UNCHANGED <<admins, subscriptions, user_sessions, site_settings,
                           packages, now, calls>>

deleteUserAction(token, userId) ==
  \E a \in verifyAdminRole(token) :
    IF a.err # "none" THEN Fail("deleteUserAction", token, userId, a.err)
    ELSE /\ users' = deleteUser(users, userId)
         /\ subscriptions' = cascade_user_delete(subscriptions, userId)
         /\ user_sessions' = cascade_user_delete(user_sessions, userId)
         /\ audit_logs' = logAuditAction(set_null_user_delete(audit_logs, userId),
                             deleteUser(users, userId), uuid + 1,
                             [userId |-> Undefined,
                              action |-> "user_deleted",
                              entityType |-> "user",
                              entityId |-> userId,
                              changes |-> [deleted |-> TRUE]])
         /\ uuid' = uuid + 1
         /\ last' = Call("deleteUserAction", token, userId, "none", {})
         /\ UNCHANGED <<admins, site_settings, packages, now, accounts,
                        lastPassword, calls>>

updateUserAction(token, userId, data) ==
  \E a \in verifyAdminRole(token) :
    LET u == updateUser(users, userId, data, now)
    IN IF a.err # "none" THEN Fail("updateUserAction", token, <<userId, data>>, a.err)
       ELSE IF u.err # "none"
         THEN Fail("updateUserAction", token, <<userId, data>>, u.err)
       ELSE /\ users' = u.users
            /\ audit_logs' = logAuditAction(audit_logs, u.users, uuid + 1,
                                [userId |-> Undefined,
                                 action |-> "user_updated",
                                 entityType |-> "user",
                                 entityId |-> userId,
                                 changes |-> data])
            /\ uuid' = uuid + 1
            /\ last' = Call("updateUserAction", token, <<userId, data>>, "none", {})
            /\ UNCHANGED <<admins, subscriptions, user_sessions, site_settings,
                           packages, now, accounts, lastPassword, calls>>

changeAdminPassword(token, newPassword) ==
  \E a \in verifyAdminRole(token) :
    LET u == updatePassword(users, a.userId, newPassword, now)
    IN IF a.err # "none" THEN Fail("changeAdminPassword", token, newPassword, a.err)
       ELSE IF u.err # "none"
         THEN Fail("changeAdminPassword", token, newPassword, u.err)
       ELSE /\ users' = u.users
            /\ audit_logs' = logAuditAction(audit_logs, u.users, uuid + 1,
                                [userId |-> a.userId,
                                 action |-> "admin_password_changed",
                                 entityType |-> "user",
                                 entityId |-> a.userId,
                                 changes |-> [password_updated |-> TRUE]])
            /\ uuid' = uuid + 1
            /\ lastPassword' = Upd(lastPassword, a.userId, newPassword)
            /\ last' = Call("changeAdminPassword", token, newPassword, "none",
                            {[success |-> TRUE]})
            /\ UNCHANGED <<admins, subscriptions, user_sessions, site_settings,
                           packages, now, accounts, calls>>

getUsers(token) ==
  \E a \in verifyAdminRole(token) :
    IF a.err # "none" THEN Fail("getUsers", token, NULL, a.err)
    ELSE /\ last' = Call("getUsers", token, NULL, "none", getAllUsers(users))
         /\ UNCHANGED <<db, now, uuid, accounts, lastPassword, calls>>

getUsersWithSubscriptions(token) ==
  \E a \in verifyAdminRole(token) :
    IF a.err # "none" THEN Fail("getUsersWithSubscriptions", token, NULL, a.err)
    ELSE /\ last' = Call("getUsersWithSubscriptions", token, NULL, "none",
                         getAllUsersWithSubscription(users, subscriptions))
         /\ UNCHANGED <<db, now, uuid, accounts, lastPassword, calls>>

updateLandingSettings(token, settings) ==
  \E a \in verifyAdminRole(token) :
    IF a.err # "none" THEN Fail("updateLandingSettings", token, settings, a.err)
    ELSE \E updated \in updateSiteSettings(site_settings, settings) :
         /\ site_settings' = updated
         /\ audit_logs' = logAuditAction(audit_logs, users, uuid + 1,
                             [userId |-> Undefined,
                              action |-> "landing_settings_updated",
                              entityType |-> "site_settings",
                              entityId |-> Undefined,
                              changes |-> settings])
         /\ uuid' = uuid + 1
         /\ last' = Call("updateLandingSettings", token, settings, "none", {})
         /\ UNCHANGED <<users, admins, subscriptions, user_sessions, packages, now,
                        accounts, lastPassword, calls>>

createPackageAction(token, data) ==
  \E a \in verifyAdminRole(token) :
    LET c == createPackage(packages, uuid + 1, data, now)
    IN IF a.err # "none" THEN Fail("createPackageAction", token, data, a.err)
       ELSE IF c.err # "none" THEN Fail("createPackageAction", token, data, c.err)
       ELSE /\ packages' = c.packages
            /\ audit_logs' = logAuditAction(audit_logs, users, uuid + 2,
                                [userId |-> a.userId,
                                 action |-> "package_created",
                                 entityType |-> "package",
                                 entityId |-> uuid + 1,
                                 changes |-> [name |-> data.name, price |-> data.price]])
            /\ uuid' = uuid + 2
            /\ last' = Call("createPackageAction", token, data, "none",
                            {[PackagePublic(c.packages, uuid + 1) EXCEPT
                                !.description = IF "description" \in DOMAIN data
                                                THEN {data.description} ELSE {},
                                !.features = IF "features" \in DOMAIN data
                                             THEN data.features
                                             ELSE [type |-> "undefined", items |-> <<>>]]})
            /\ UNCHANGED <<users, admins, subscriptions, user_sessions, site_settings,
                           now, accounts, lastPassword, calls>>

updatePackageAction(token, packageId, data) ==
  \E a \in verifyAdminRole(token) :
    LET u == updatePackage(packages, packageId, data, now)
    IN IF a.err # "none"
         THEN Fail("updatePackageAction", token, <<packageId, data>>, a.err)
       ELSE IF u.err # "none"
         THEN Fail("updatePackageAction", token, <<packageId, data>>, u.err)
       ELSE IF getPackageById(u.packages, packageId) = {}
         THEN Fail("updatePackageAction", token, <<packageId, data>>, "Package not found")
       ELSE /\ packages' = u.packages
            /\ audit_logs' = logAuditAction(audit_logs, users, uuid + 1,
                                [userId |-> a.userId,
                                 action |-> "package_updated",
                                 entityType |-> "package",
                                 entityId |-> packageId,
                                 changes |-> data])
            /\ uuid' = uuid + 1
            /\ last' = Call("updatePackageAction", token, <<packageId, data>>, "none",
                            getPackageById(u.packages, packageId))
            /\ UNCHANGED <<users, admins, subscriptions, user_sessions, site_settings,
                           now, accounts, lastPassword, calls>>

deletePackageAction(token, packageId) ==
  \E a \in verifyAdminRole(token) :
    IF a.err # "none" THEN Fail("deletePackageAction", token, packageId, a.err)
    ELSE IF getPackageById(packages, packageId) = {}
      THEN Fail("deletePackageAction", token, packageId, "Package not found")
    ELSE /\ packages' = deletePackage(packages, packageId)
         /\ audit_logs' = logAuditAction(audit_logs, users, uuid + 1,
                             [userId |-> a.userId,
                              action |-> "package_deleted",
                              entityType |-> "package",
                              entityId |-> packageId,
                              changes |-> [name |-> packages[packageId].name]])
         /\ uuid' = uuid + 1
         /\ last' = Call("deletePackageAction", token, packageId, "none", {})
         /\ UNCHANGED <<users, admins, subscriptions, user_sessions, site_settings,
                        now, accounts, lastPassword, calls>>

defaultPackages ==
  << [name |-> "Desktop Software",
      description |-> "Manage Yourself - Desktop Software for DIY traders with Community Access",
      price |-> 4999, currency |-> "₹",
      features |-> Arr(<<"Desktop Software", "DIY", "Community Access",
                         "Manage Yourself", "Local Execution">>),
      display_order |-> 0],
     [name |-> "Auto Server",
      description |-> "Fully Automated Server based execution for hands-free trading",
      price |-> 5999, currency |-> "₹",
      features |-> Arr(<<"Fully Automated", "Server based Execution",
                         "Priority Support", "24/7 Monitoring",
                         "Execution Management">>),
      display_order |-> 1],
     [name |-> "Hybrid Plan",
      description |-> "Combination of Desktop Software and Server Execution",
      price |-> 7999, currency |-> "₹",
      features |-> Arr(<<"Desktop Software", "Server Execution", "Advanced Analytics",
                         "Priority Support", "API Access", "Custom Strategies">>),
      display_order |-> 2] >>

CountText(n) == <<"1", "2", "3", "4", "5", "6", "7", "8", "9">>[n]

\* the loop of seedDefaultPackagesAction: createPackage for the first n
\* default packages, stopping at the first one that fails
RECURSIVE seedLoop(_, _, _, _)
seedLoop(pkgs, id, n, t) ==
  IF n = 0 THEN [err |-> "none", packages |-> pkgs]
  ELSE LET before == seedLoop(pkgs, id, n - 1, t)
       IN IF before.err # "none" THEN before
          ELSE createPackage(before.packages, id + n, defaultPackages[n], t)

seedDefaultPackagesAction(token) ==
  \E a \in verifyAdminRole(token) :
    LET existingPackages == getAllPackages(packages, FALSE)
        seeded == seedLoop(packages, uuid, Len(defaultPackages), now)
        created == {uuid + n : n \in 1..Len(defaultPackages)}
    IN IF a.err # "none" THEN Fail("seedDefaultPackagesAction", token, NULL, a.err)
       ELSE IF Cardinality(existingPackages) > 0
         THEN Fail("seedDefaultPackagesAction", token, NULL,
                   "Database already has " \o CountText(Cardinality(existingPackages))
                     \o " package(s). Delete existing packages first to re-seed.")
       ELSE IF seeded.err # "none"
         THEN /\ packages' = seeded.packages
              /\ uuid' = uuid + Len(defaultPackages)
              /\ last' = Call("seedDefaultPackagesAction", token, NULL, seeded.err, {})
              /\ UNCHANGED <<users, admins, subscriptions, user_sessions, audit_logs,
                             site_settings, now, accounts, lastPassword, calls>>
       ELSE /\ packages' = seeded.packages
            /\ audit_logs' = logAuditAction(audit_logs, users,
                                uuid + Len(defaultPackages) + 1,
                                [userId |-> a.userId,
                                 action |-> "packages_seeded",
                                 entityType |-> "package",
                                 entityId |-> Undefined,
                                 changes |-> [count |-> Cardinality(created),
                                              packages |-> [n \in 1..Len(defaultPackages)
                                                              |-> defaultPackages[n].name]]])
            /\ uuid' = uuid + Len(defaultPackages) + 1
            /\ last' = Call("seedDefaultPackagesAction", token, NULL, "none",
                            {[success |-> TRUE,
                              packages |-> {PackagePublic(seeded.packages, i) :
                                              i \in created}]})
            /\ UNCHANGED <<users, admins, subscriptions, user_sessions, site_settings,
                           now, accounts, lastPassword, calls>>

\* getPackagesAction / getActivePackagesAction: the public reads
getPackagesAction ==
  /\ last' = Call("getPackagesAction", NoToken, NULL, "none",
                  getAllPackages(packages, FALSE))
  /\ UNCHANGED <<db, now, uuid, accounts, lastPassword, calls>>
getActivePackagesAction ==
  /\ last' = Call("getActivePackagesAction", NoToken, NULL, "none",
                  getAllPackages(packages, TRUE))
  /\ UNCHANGED <<db, now, uuid, accounts, lastPassword, calls>>

\* scripts/seed-packages.js: skip when SELECT COUNT(*) FROM packages is
\* positive, else INSERT the default packages with UUID() ids, active
seedPackages ==
  LET count == Cardinality(DOMAIN packages)
      created == {uuid + n : n \in 1..Len(defaultPackages)}
      row(pkg) == [name |-> pkg.name, description |-> {pkg.description},
                   price |-> pkg.price, currency |-> pkg.currency,
                   features |-> {JSONstringify(pkg.features)},
                   display_order |-> pkg.display_order, created_by |-> {},
                   active |-> TRUE, created_at |-> now, updated_at |-> now]
  IN IF count > 0 THEN Fail("seedPackages", NoToken, NULL, "none")
     ELSE /\ packages' = [i \in created |-> row(defaultPackages[i - uuid])]
          /\ uuid' = uuid + Len(defaultPackages)
          /\ last' = Call("seedPackages", NoToken, NULL, "none", {})
          /\ UNCHANGED <<users, admins, subscriptions, user_sessions, audit_logs,
                         site_settings, now, accounts, lastPassword, calls>>

----------------------------------------------------------------------------
\* The admin login route (POST).

\* the account the route finds by email: the admins table first, the users
\* table only when no admins row matches ([table, id], or none)
LoginAccount(adms, usrs, email) ==
  LET adminResults == {[table |-> "admins", id |-> i] :
                         i \in {j \in DOMAIN adms : adms[j].email = email}}
      userResults == {[table |-> "users", id |-> i] :
                        i \in {j \in DOMAIN usrs : usrs[j].email = email}}
  IN IF adminResults # {} THEN adminResults ELSE userResults

\* request.headers.get('x-forwarded-for') || 'unknown'
ipAddress(request) == IF request.forwarded # "" THEN request.forwarded ELSE "unknown"

LoginAudit(request, action, actor, entityId) ==
  [userId |-> actor, action |-> action, entityType |-> "user",
   entityId |-> entityId, changes |-> NULL, ipAddress |-> ipAddress(request)]

\* a response of the route together with the tables it leaves
Response(status, error, ret, adms, usrs, logs) ==
  [status |-> status, error |-> error, ret |-> ret,
   admins |-> adms, users |-> usrs, audit_logs |-> logs]

\* POST: the responses the route can give to a request on the given tables
\* (an exception anywhere in the handler is answered with status 500)
POST(adms, usrs, logs, id, request, t) ==
  IF request.email = "" \/ request.password = ""
  THEN {Response(400, "Email and password are required", {}, adms, usrs, logs)}
  ELSE IF LoginAccount(adms, usrs, request.email) = {}
  THEN {Response(401, "Invalid email or password", {}, adms, usrs, logs)}
  ELSE UNION {
    LET user == IF found.table = "admins" THEN adms[found.id] ELSE usrs[found.id]
        seen == IF found.table = "admins"
                THEN [admins |-> Patch(adms, found.id, [last_login |-> t]), users |-> usrs]
                ELSE [admins |-> adms, users |-> updateLastLogin(usrs, found.id, t)]
    IN IF ~verifyPassword(request.password, user.password_hash)
       THEN {IF a.err # "none"
             THEN Response(500, "Internal server error", {}, adms, usrs, a.audit_logs)
             ELSE Response(401, "Invalid email or password", {}, adms, usrs, a.audit_logs)
             : a \in logAuditActionOutcomes(logs, usrs, id,
                       LoginAudit(request, "admin_login_failed", Undefined, found.id))}
       ELSE IF user.role \notin AdminRoles
       THEN {IF a.err # "none"
             THEN Response(500, "Internal server error", {}, adms, usrs, a.audit_logs)
             ELSE Response(403, "Not authorized as admin", {}, adms, usrs, a.audit_logs)
             : a \in logAuditActionOutcomes(logs, usrs, id,
                       LoginAudit(request, "admin_login_forbidden", found.id, found.id))}
       ELSE IF user.status = "Cancelled"
       THEN {Response(403, "Account has been cancelled", {}, adms, usrs, logs)}
       ELSE {IF a.err # "none"
             THEN Response(500, "Internal server error", {},
                           seen.admins, seen.users, a.audit_logs)
             ELSE Response(200, "none",
                           {[token |-> Jwt(found.id, user.role), id |-> found.id]},
                           seen.admins, seen.users, a.audit_logs)
             : a \in logAuditActionOutcomes(logs, seen.users, id,
                       LoginAudit(request, "admin_login", found.id, found.id))}
    : found \in LoginAccount(adms, usrs, request.email)}

adminLogin(request) ==
  \E r \in POST(admins, users, audit_logs, uuid + 1, request, now) :
    /\ admins' = r.admins
    /\ users' = r.users
    /\ audit_logs' = r.audit_logs
    /\ uuid' = IF r.audit_logs # audit_logs THEN uuid + 1 ELSE uuid
    /\ last' = [Call("adminLogin", NoToken, request, r.error, r.ret)
                  EXCEPT !.status = r.status]
    /\ UNCHANGED <<subscriptions, user_sessions, site_settings, packages, now,
                   accounts, lastPassword, calls>>

----------------------------------------------------------------------------
\* Spec: the subscription life cycle, server actions run one at a time.

NewUsers ==
  {[name |-> "Alice", email |-> "alice@x.com", password |-> "pw123456", plan |-> ""]}
\* the subscription ids a caller can name: every row's, and one no row has
SubscriptionIds == DOMAIN subscriptions \cup {uuid + 1}

Next ==
  \/ \E token \in Tokens :
       Len(audit_logs) < MaxAudit /\ getUserSubscription(token)
  \/ \E token \in Tokens, planName \in Plans :
       Len(audit_logs) < MaxAudit /\ activateSubscription(token, planName)
  \/ \E token \in Tokens, id \in SubscriptionIds :
       Len(audit_logs) < MaxAudit /\ cancelSubscription(token, id)
  \/ \E token \in Tokens, data \in NewUsers :
       Len(audit_logs) < MaxAudit /\ addUser(token, data)
  \/ \E token \in Tokens, id \in DOMAIN users :
       Len(audit_logs) < MaxAudit /\ deleteUserAction(token, id)

Spec == Init /\ [][Next]_vars

----------------------------------------------------------------------------
\* Claims about the subscription life cycle (checked under Spec).

\* the step completes a call of op
Completes(op) == last'.op = op /\ vars' # vars
SubsOf(subs, userId) == {s \in DOMAIN subs : subs[s].user_id = userId}
OwnActive(token, id) ==
  /\ token.kind = "jwt"
  /\ id \in DOMAIN subscriptions
  /\ subscriptions[id].user_id = token.userId
  /\ subscriptions[id].status = "Active"

\* C2 (as claimed): cancelSubscription(token, id) on the requester's current
\* Active subscription succeeds for every user history: the row becomes
\* Cancelled and the user's plan becomes Starter.
C2_CancelOwnActiveSucceeds ==
  [][(Completes("cancelSubscription") /\ OwnActive(last'.token, last'.arg))
       => /\ last'.err = "none"
          /\ subscriptions'[last'.arg].status = "Cancelled"
          /\ users'[last'.token.userId].plan = "Starter"]_vars

\* C3: for a user with no subscription rows, activateSubscription(plan) sets
\* users.plan to plan and makes getSubscription return the new Active row;
\* cancelSubscription of the returned id right after it sets users.plan to
\* Starter, keeps the row with status Cancelled and makes getSubscription
\* return none.
C3_ActivateStep ==
  (/\ Completes("activateSubscription")
   /\ last'.token.kind = "jwt"
   /\ last'.token.userId \in DOMAIN users
   /\ SubsOf(subscriptions, last'.token.userId) = {})
    => /\ last'.err = "none"
       /\ users'[last'.token.userId].plan = last'.arg
       /\ \E r \in last'.ret :
            /\ r.plan = last'.arg /\ r.status = "Active"
            /\ getSubscription(subscriptions', last'.token.userId) = {r.id}
C3_CancelStep ==
  (/\ Completes("cancelSubscription")
   /\ last.op = "activateSubscription" /\ last.err = "none"
   /\ last'.token = last.token
   /\ \E r \in last.ret : r.id = last'.arg
   /\ SubsOf(subscriptions, last.token.userId) = {last'.arg})
    => /\ last'.err = "none"
       /\ users'[last.token.userId].plan = "Starter"
       /\ last'.arg \in DOMAIN subscriptions'
       /\ subscriptions'[last'.arg].status = "Cancelled"
       /\ getSubscription(subscriptions', last.token.userId) = {NULL}
C3_ActivateThenCancel == [][C3_ActivateStep /\ C3_CancelStep]_vars
\* a user created by addUser has activated and then cancelled
C3_Witness ==
  /\ last.op = "cancelSubscription" /\ last.err = "none"
  /\ last.token.userId \in DOMAIN users
  /\ users[last.token.userId].role = "user"
  /\ users[last.token.userId].plan = "Starter"
  /\ SubsOf(subscriptions, last.token.userId) = {last.arg}
  /\ subscriptions[last.arg].status = "Cancelled"

\* C4: cancelSubscription(token, id) by a verified requester whose current
\* Active subscription is not id fails with 'Subscription not found or access
\* denied' and changes no subscription row, no users.plan and no audit entry.
C4_CancelForeignRejected ==
  [][(/\ Completes("cancelSubscription")
      /\ last'.token.kind = "jwt"
      /\ ~OwnActive(last'.token, last'.arg))
       => /\ last'.err = "Subscription not found or access denied"
          /\ UNCHANGED <<subscriptions, users, audit_logs>>]_vars
\* the rejected id is another user's Active subscription
C4_Witness ==
  /\ last.op = "cancelSubscription"
  /\ last.err = "Subscription not found or access denied"
  /\ last.token.kind = "jwt"
  /\ last.arg \in DOMAIN subscriptions
  /\ subscriptions[last.arg].status = "Active"
  /\ subscriptions[last.arg].user_id # last.token.userId
  /\ getSubscription(subscriptions, last.token.userId) # {NULL}

\* C14: the audit log is append-only: every step keeps every audit_logs row
\* in place with its action, entity_type, entity_id, changes and ip_address,
\* and changes a row's user_id only to NULL, when the user it names is deleted.
C14_AuditAppendOnly ==
  [][/\ Len(audit_logs') >= Len(audit_logs)
     /\ \A i \in 1..Len(audit_logs) :
          /\ audit_logs'[i].id = audit_logs[i].id
          /\ audit_logs'[i].action = audit_logs[i].action
          /\ audit_logs'[i].entity_type = audit_logs[i].entity_type
          /\ audit_logs'[i].entity_id = audit_logs[i].entity_id
          /\ audit_logs'[i].changes = audit_logs[i].changes
          /\ audit_logs'[i].ip_address = audit_logs[i].ip_address
          /\ \/ audit_logs'[i].user_id = audit_logs[i].user_id
             \/ /\ audit_logs'[i].user_id = NULL
                /\ audit_logs[i].user_id \notin DOMAIN users']_vars

C14_Witness ==
  /\ last.op = "deleteUserAction" /\ last.err = "none"
  /\ last.arg \notin DOMAIN users
  /\ \E i \in 1..Len(audit_logs) :
       /\ audit_logs[i].action = "subscription_activated"
       /\ audit_logs[i].user_id = NULL
       /\ audit_logs[i].changes.plan \in Plans

\* C10 (as claimed): activateSubscription, cancelSubscription and
\* getUserSubscription called with a missing, invalid or expired token fail
\* with the error getCurrentUserId raises, before any table is used.
C10_NoTokenNoUserId ==
  (/\ last.op \in {"activateSubscription", "cancelSubscription", "getUserSubscription"}
   /\ last.token.kind # "jwt")
    => last.err \in {"No token provided", "Invalid token"}

----------------------------------------------------------------------------
\* SpecRace: server actions of concurrent requests, one database statement
\* per step.  calls[c] is request c: its action, its arguments, the user id
\* its token gave, the statement it runs next (pc), its error, the id of the
\* subscription it inserted, the actor its audit lookup found, the requests
\* in flight when it began, whether its user then had an Active row and
\* whether the catalog was then empty.

\* FOREIGN KEY (user_id) REFERENCES users(id) of audit_logs
audit_logs_user_fk(usrs, userIdToInsert) ==
  userIdToInsert = NULL \/ userIdToInsert \in DOMAIN usrs

InFlight == {c \in DOMAIN calls : calls[c].pc # "done"}
HasActive(subs, userId) ==
  \E s \in DOMAIN subs : subs[s].user_id = userId /\ subs[s].status = "Active"

Begin(op, token, arg, userId, err, pc) ==
  /\ Cardinality(DOMAIN calls) < MaxCalls
  /\ calls' = Upd(calls, Cardinality(DOMAIN calls) + 1,
                  [op |-> op, token |-> token, arg |-> arg, userId |-> userId,
                   pc |-> IF err = "none" THEN pc ELSE "done", err |-> err,
                   sub |-> NULL, actor |-> NULL, during |-> InFlight,
                   active0 |-> HasActive(subscriptions, userId),
                   empty0 |-> DOMAIN packages = {}])
  /\ UNCHANGED <<db, now, uuid, accounts, lastPassword, last>>

\* activateSubscription, up to its first statement
BeginActivate(token, planName) ==
  \E g \in getCurrentUserId(token) :
    Begin("activateSubscription", token, planName, g.userId, g.err,
          "createSubscription")
\* cancelSubscription, up to its first statement
BeginCancel(token, subscriptionId) ==
  \E g \in getCurrentUserId(token) :
    Begin("cancelSubscription", token, subscriptionId, g.userId, g.err,
          "getSubscription")
\* deleteUserAction, up to its first statement
BeginDelete(token, userId) ==
  \E a \in verifyAdminRole(token) :
    Begin("deleteUserAction", token, userId, Undefined, a.err, "deleteUser")

Goto(c, pc) == calls' = [calls EXCEPT ![c].pc = pc]
Throw(c, err) == calls' = [calls EXCEPT ![c].pc = "done", ![c].err = err]

\* createSubscription's INSERT, in activateSubscription
StepCreateSubscription(c) ==
  /\ calls[c].pc = "createSubscription"
  /\ LET r == createSubscription(subscriptions, users, uuid + 1, calls[c].userId,
                                 calls[c].arg, now)
     IN IF r.err # "none"
        THEN Throw(c, r.err) /\ UNCHANGED <<subscriptions, uuid>>
        ELSE /\ subscriptions' = r.subscriptions
             /\ uuid' = uuid + 1
             /\ calls' = [calls EXCEPT ![c].pc = "updateUser", ![c].sub = uuid + 1]
  /\ UNCHANGED <<users, admins, user_sessions, audit_logs, site_settings,
                 packages, now, accounts, lastPassword, last>>

\* getSubscription's SELECT and the ownership test, in cancelSubscription
StepGetSubscription(c) ==
  /\ calls[c].pc = "getSubscription"
  /\ \E subscription \in getSubscription(subscriptions, calls[c].userId) :
       IF subscription = NULL \/ subscription # calls[c].arg
       THEN Throw(c, "Subscription not found or access denied")
       ELSE Goto(c, "updateSubscription")
  /\ UNCHANGED <<db, now, uuid, accounts, lastPassword, last>>

\* updateSubscription's UPDATE, in cancelSubscription
StepUpdateSubscription(c) ==
  /\ calls[c].pc = "updateSubscription"
  /\ LET r == updateSubscription(subscriptions, calls[c].arg, [status |-> "Cancelled"],
                                 now)
     IN IF r.err # "none"
        THEN Throw(c, r.err) /\ UNCHANGED subscriptions
        ELSE subscriptions' = r.subscriptions /\ Goto(c, "updateUser")
  /\ UNCHANGED <<users, admins, user_sessions, audit_logs, site_settings,
                 packages, now, uuid, accounts, lastPassword, last>>

\* updateUser's UPDATE of the plan, in activateSubscription and cancelSubscription
StepUpdateUser(c) ==
  /\ calls[c].pc = "updateUser"
  /\ users' = updateUser(users, calls[c].userId,
                  [plan |-> IF calls[c].op = "activateSubscription"
                            THEN calls[c].arg ELSE "Starter"], now).users
  /\ Goto(c, "logAuditLookup")
  /\ UNCHANGED <<admins, subscriptions, user_sessions, audit_logs, site_settings,
                 packages, now, uuid, accounts, lastPassword, last>>

\* deleteUser's DELETE with the schema's cascades, in deleteUserAction
StepDeleteUser(c) ==
  /\ calls[c].pc = "deleteUser"
  /\ users' = deleteUser(users, calls[c].arg)
  /\ subscriptions' = cascade_user_delete(subscriptions, calls[c].arg)
  /\ user_sessions' = cascade_user_delete(user_sessions, calls[c].arg)
  /\ audit_logs' = set_null_user_delete(audit_logs, calls[c].arg)
  /\ Goto(c, "logAuditInsert")
  /\ UNCHANGED <<admins, site_settings, packages, now, uuid, accounts,
                 lastPassword, last>>

\* logAuditAction's SELECT id FROM users
StepAuditLookup(c) ==
  /\ calls[c].pc = "logAuditLookup"
  /\ calls' = [calls EXCEPT ![c].pc = "logAuditInsert",
                            ![c].actor = auditActor(users, calls[c].userId)]
  /\ UNCHANGED <<db, now, uuid, accounts, lastPassword, last>>

AuditData(c) ==
  IF calls[c].op = "activateSubscription"
  THEN [action |-> "subscription_activated", entityType |-> "subscription",
        entityId |-> calls[c].sub, changes |-> [plan |-> calls[c].arg]]
  ELSE IF calls[c].op = "cancelSubscription"
  THEN [action |-> "subscription_cancelled", entityType |-> "subscription",
        entityId |-> calls[c].arg, changes |-> [status |-> "Cancelled"]]
  ELSE IF calls[c].op = "seedDefaultPackagesAction"
  THEN [action |-> "packages_seeded", entityType |-> "package",
        entityId |-> Undefined,
        changes |-> [count |-> calls[c].arg,
                     packages |-> [n \in 1..calls[c].arg |-> defaultPackages[n].name]]]
  ELSE [action |-> "user_deleted", entityType |-> "user",
        entityId |-> calls[c].arg, changes |-> [deleted |-> TRUE]]

\* logAuditAction's INSERT INTO audit_logs; the action returns after it
StepAuditInsert(c) ==
  /\ calls[c].pc = "logAuditInsert"
  /\ IF audit_logs_user_fk(users, calls[c].actor)
     THEN /\ audit_logs' = auditInsert(audit_logs, uuid + 1, calls[c].actor, AuditData(c))
          /\ uuid' = uuid + 1
          /\ Goto(c, "done")
     ELSE Throw(c, "ER_NO_REFERENCED_ROW") /\ UNCHANGED <<audit_logs, uuid>>
  /\ UNCHANGED <<users, admins, subscriptions, user_sessions, site_settings,
                 packages, now, accounts, lastPassword, last>>

\* The runs start after addUser has created Alice (id 3), and either before
\* her first activateSubscription or after it (subscription 5, plan Pro).
Alice == [name |-> "Alice", email |-> "alice@x.com", password |-> "pw123456", plan |-> ""]
InitRace ==
  \E subscribed \in BOOLEAN :
    LET created == createUser(SchemaUsers, 3, Alice, 1).users
        logged == logAuditAction(<<>>, created, 4,
                    [userId |-> Undefined, action |-> "user_created",
                     entityType |-> "user", entityId |-> 3,
                     changes |-> [email |-> Alice.email, name |-> Alice.name]])
        inserted == createSubscription(EmptyTable, created, 5, 3, "Pro", 1).subscriptions
        updated == updateUser(created, 3, [plan |-> "Pro"], 1).users
    IN /\ users = IF subscribed THEN updated ELSE created
       /\ admins = SchemaAdmins
       /\ subscriptions = IF subscribed THEN inserted ELSE EmptyTable
       /\ user_sessions = EmptyTable
       /\ audit_logs =
            IF subscribed
            THEN logAuditAction(logged, updated, 6,
                   [userId |-> 3, action |-> "subscription_activated",
                    entityType |-> "subscription", entityId |-> 5,
                    changes |-> [plan |-> "Pro"]])
            ELSE logged
       /\ site_settings = <<>>
       /\ packages = EmptyTable
       /\ now = 1
       /\ uuid = IF subscribed THEN 6 ELSE 4
       /\ accounts = (SchemaAdminId :> "admin") @@ (SeparateAdminId :> "superadmin")
                       @@ (3 :> "user")
       /\ lastPassword = (SchemaAdminId :> "admin@123")
                           @@ (SeparateAdminId :> "admin@123") @@ (3 :> Alice.password)
       /\ calls = EmptyTable
       /\ last = IF subscribed
                 THEN Call("activateSubscription", Jwt(3, "user"), "Pro", "none",
                           {SubPublic(inserted, 5)})
                 ELSE Call("addUser", Jwt(SchemaAdminId, "admin"), Alice, "none",
                           {UserPublic(created, 3)})

\* the requesters: the users that hold a users row when the run starts
RaceTokens == {Jwt(id, accounts[id]) : id \in DOMAIN accounts \ DOMAIN admins}
RacePlans == {"Pro", "Expert"}

NextRace ==
  \/ \E token \in RaceTokens, planName \in RacePlans : BeginActivate(token, planName)
  \/ \E token \in RaceTokens, id \in DOMAIN subscriptions : BeginCancel(token, id)
  \/ \E token \in RaceTokens, id \in DOMAIN users : BeginDelete(token, id)
  \/ \E c \in DOMAIN calls : StepCreateSubscription(c)
  \/ \E c \in DOMAIN calls : StepGetSubscription(c)
  \/ \E c \in DOMAIN calls : StepUpdateSubscription(c)
  \/ \E c \in DOMAIN calls : StepUpdateUser(c)
  \/ \E c \in DOMAIN calls : StepDeleteUser(c)
  \/ \E c \in DOMAIN calls : StepAuditLookup(c)
  \/ \E c \in DOMAIN calls : StepAuditInsert(c)

SpecRace == InitRace /\ [][NextRace]_vars

----------------------------------------------------------------------------
\* Claims about concurrent subscription actions (checked under SpecRace).

ActiveOf(userId) ==
  {s \in DOMAIN subscriptions :
     subscriptions[s].user_id = userId /\ subscriptions[s].status = "Active"}
AtMostOneActive == \A u \in DOMAIN users : Cardinality(ActiveOf(u)) <= 1

\* request c runs the INSERT of activateSubscription in this step
InsertsNow(c) ==
  /\ calls[c].op = "activateSubscription"
  /\ calls[c].pc = "createSubscription"
  /\ calls'[c].pc # "createSubscription"

\* C1: under every interleaving of the statements of activateSubscription,
\* cancelSubscription and user deletion each user has at most one Active
\* subscription row, and an activateSubscription whose insert finds an Active
\* row of its user fails, inserts no row and leaves users.plan unchanged.
C1_OneActiveSubscription ==
  /\ []AtMostOneActive
  /\ [][\A c \in DOMAIN calls :
          (InsertsNow(c) /\ HasActive(subscriptions, calls[c].userId))
            => /\ calls'[c].pc = "done"
               /\ calls'[c].err = "ER_DUP_ENTRY"
               /\ calls'[c].sub = NULL
               /\ UNCHANGED <<subscriptions, users>>]_vars
\* an activation failed on the key while another request was in flight
C1_Witness ==
  \E c \in DOMAIN calls :
    /\ calls[c].op = "activateSubscription"
    /\ calls[c].pc = "done" /\ calls[c].err = "ER_DUP_ENTRY"
    /\ calls[c].during # {}
    /\ Cardinality(ActiveOf(calls[c].userId)) = 1

Touches(c, userId) ==
  \/ calls[c].userId = userId
  \/ calls[c].op = "deleteUserAction" /\ calls[c].arg = userId
\* c1 and c2 are the only requests about their user: two activations, the
\* second begun while the first was in flight, the user then without an
\* Active subscription; both have returned
RacedActivations(c1, c2) ==
  /\ c1 # c2
  /\ calls[c1].op = "activateSubscription" /\ calls[c2].op = "activateSubscription"
  /\ calls[c1].userId = calls[c2].userId
  /\ c1 \in calls[c2].during
  /\ ~calls[c1].active0
  /\ calls[c1].pc = "done" /\ calls[c2].pc = "done"
  /\ \A c \in DOMAIN calls \ {c1, c2} : ~Touches(c, calls[c1].userId)
Won(w, l) ==
  /\ calls[w].err = "none"
  /\ calls[l].err = "ER_DUP_ENTRY"
  /\ ActiveOf(calls[w].userId) = {calls[w].sub}
  /\ calls[w].userId \in DOMAIN users
  /\ users[calls[w].userId].plan = calls[w].arg

\* C5: of two concurrent activateSubscription calls for a user without an
\* Active subscription exactly one succeeds and the other fails on the unique
\* key; afterwards the user has exactly one Active row and users.plan is the
\* plan of the call that succeeded.
C5_OneActivationWins ==
  \A c1, c2 \in DOMAIN calls :
    RacedActivations(c1, c2) => (Won(c1, c2) \/ Won(c2, c1))
\* the call that began second won, with a different plan
C5_Witness ==
  \E c1, c2 \in DOMAIN calls :
    /\ RacedActivations(c1, c2)
    /\ Won(c2, c1)
    /\ calls[c1].arg # calls[c2].arg

\* C12 (as claimed): a server action whose primary statements have all run
\* reports success to its caller whatever happens to its audit entry (the
\* actor lookup or the INSERT INTO audit_logs).
C12_AuditFailureSwallowed ==
  [][\A c \in DOMAIN calls :
       (calls[c].pc \in {"logAuditLookup", "logAuditInsert"} /\ calls'[c].pc = "done")
         => calls'[c].err = "none"]_vars

\* C13 (as claimed): logAuditAction appends exactly one audit_logs row, whose
\* user_id is the actor id when the lookup found a users row with that id and
\* NULL otherwise; it does not fail.
C13_OneAuditRowPerCall ==
  [][\A c \in DOMAIN calls :
       (calls[c].pc = "logAuditInsert" /\ calls'[c].pc = "done")
         => (/\ Len(audit_logs') = Len(audit_logs) + 1
             /\ SubSeq(audit_logs', 1, Len(audit_logs)) = audit_logs
             /\ audit_logs'[Len(audit_logs')].user_id = calls[c].actor)]_vars

----------------------------------------------------------------------------
\* SpecAccounts: account creation, update, password change and admin login.

AccountEmails == {"alice@x.com", "bob@x.com", AdminEmail}
NewAccounts ==
  {[name |-> "Alice", email |-> e, password |-> "pw123456", plan |-> ""] :
     e \in AccountEmails}
    \cup {[name |-> "Alice", email |-> "alice@x.com", password |-> "", plan |-> "Pro"]}
UserUpdates ==
  {[email |-> e] : e \in AccountEmails}
    \cup {[plan |-> "Pro"], [name |-> "Bob", status |-> "Cancelled"],
          [name |-> "Eve", role |-> "admin"], EmptyTable}
NewPasswords == {"", "short", "pw123456", "newpass1"}
LoginBodies ==
  [email : {"", AdminEmail, SeparateAdminEmail, "alice@x.com", "nobody@x.com"},
   password : {"", "admin@123", "pw123456", "newpass1"},
   forwarded : {""}]

NextAccounts ==
  \/ \E token \in Tokens, data \in NewAccounts :
       Len(audit_logs) < MaxAcctAudit /\ addUser(token, data)
  \/ \E token \in Tokens, id \in DOMAIN users, data \in UserUpdates :
       Len(audit_logs) < MaxAcctAudit /\ updateUserAction(token, id, data)
  \/ \E token \in Tokens, newPassword \in NewPasswords :
       Len(audit_logs) < MaxAcctAudit /\ changeAdminPassword(token, newPassword)
  \/ \E body \in LoginBodies :
       Len(audit_logs) < MaxAcctAudit /\ adminLogin(body)
  \/ \E token \in Tokens :
       Len(audit_logs) < MaxAcctAudit /\ activateSubscription(token, "Pro")
  \/ \E token \in Tokens, id \in DOMAIN subscriptions :
       Len(audit_logs) < MaxAcctAudit /\ cancelSubscription(token, id)

SpecAccounts == Init /\ [][NextAccounts]_vars

----------------------------------------------------------------------------
\* Claims checked under SpecAccounts.

WithEmail(usrs, email) == {i \in DOMAIN usrs : usrs[i].email = email}
NoSharedEmail ==
  \A i \in DOMAIN users, j \in DOMAIN users : users[i].email = users[j].email => i = j
AdminToken(token) == token.kind = "jwt" /\ token.role \in AdminRoles

\* C6: createUser with an email already in the users table fails with 'Email
\* already exists' and inserts nothing, so exactly one row has that email
\* afterward; and no reachable state has two users rows with the same email,
\* whatever createUser and updateUser calls led to it.
C6_EmailUnique ==
  /\ []NoSharedEmail
  /\ [][(/\ Completes("addUser")
         /\ AdminToken(last'.token)
         /\ last'.arg.password # ""
         /\ WithEmail(users, last'.arg.email) # {})
        => (/\ last'.err = "Email already exists"
            /\ users' = users
            /\ Cardinality(WithEmail(users', last'.arg.email)) = 1)]_vars

C6_Witness ==
  /\ last.op = "addUser" /\ last.err = "Email already exists"
  /\ \E i \in DOMAIN users : users[i].role = "user" /\ users[i].email = last.arg.email
  /\ Cardinality(DOMAIN users) = 2

PasswordAccepted ==
  last.err \notin {"Email and password are required", "Invalid email or password",
                   "Internal server error"}

\* C7 (as claimed): a login for an existing account's email passes the
\* password check if and only if the supplied password is the one most
\* recently set for that account (at creation or by a successful
\* updatePassword).
C7_PasswordRoundTrip ==
  last.op = "adminLogin" =>
    \A found \in LoginAccount(admins, users, last.arg.email) :
      PasswordAccepted <=> last.arg.password = lastPassword[found.id]

\* the password hash stored for the account with the id
StoredHash(adms, usrs, id) ==
  IF id \in DOMAIN adms THEN adms[id].password_hash ELSE usrs[id].password_hash

\* C20 (as claimed): updatePassword(userId, p) with p empty or shorter than 6
\* characters fails with 'Password must be at least 6 characters' and changes
\* no stored hash; with a longer p it succeeds and the hash stored for userId
\* becomes the hash of p.
C20_PasswordMinLength ==
  [][(last'.op = "changeAdminPassword" /\ last' # last /\ AdminToken(last'.token))
       => IF last'.arg = "" \/ Len(last'.arg) < MinPasswordLength
          THEN /\ last'.err = "Password must be at least 6 characters"
               /\ users' = users /\ admins' = admins
          ELSE /\ last'.err = "none"
               /\ StoredHash(admins', users', last'.token.userId)
                    = hashPassword(last'.arg)]_vars

\* the accounts with the id, in the admins table and in the users table
AccountsWithId(id) ==
  {admins[i] : i \in DOMAIN admins \cap {id}} \cup {users[i] : i \in DOMAIN users \cap {id}}

\* C26 (as claimed): right after changeAdminPassword(token, p) returned
\* { success: true }, an admin login with the email of the token's account
\* (status Active) succeeds with p and fails with any other password, the
\* previous one included, for an account of the admins table as well as for
\* one of the users table.
C26_ChangedPasswordLogsIn ==
  [][(/\ last.op = "changeAdminPassword" /\ last.err = "none"
      /\ last'.op = "adminLogin" /\ last' # last
      /\ \E account \in AccountsWithId(last.token.userId) :
            account.email = last'.arg.email /\ account.status = "Active")
       => (last'.status = 200 <=> last'.arg.password = last.arg)]_vars

RoleChangingActions ==
  {"addUser", "updateUserAction", "activateSubscription", "cancelSubscription",
   "changeAdminPassword"}
\* the accounts of the table whose role is admin or superadmin
AdminsOf(t) == {i \in DOMAIN t : t[i].role \in AdminRoles}

----------------------------------------------------------------------------
\* SpecSession: the session table under a moving clock.  The session
\* functions are called directly, one statement each.

SessionPublic(sess, id) ==
  [id |-> id, user_id |-> sess[id].user_id, expires_at |-> sess[id].expires_at]

SessionUnchanged ==
  UNCHANGED <<users, admins, subscriptions, audit_logs, site_settings, packages,
              accounts, lastPassword, calls>>

CallCreateSession(userId, sessionToken, expiresAt) ==
  LET c == createSession(user_sessions, users, uuid + 1, userId, sessionToken,
                         expiresAt, now)
  IN /\ uuid < SeparateAdminId + MaxSessions
     /\ user_sessions' = c.user_sessions
     /\ uuid' = uuid + 1
     /\ last' = Call("createSession", NoToken, <<userId, sessionToken, expiresAt>>,
                     c.err, IF c.err = "none" THEN {uuid + 1} ELSE {})
     /\ UNCHANGED now /\ SessionUnchanged

CallGetSessionByToken(sessionToken) ==
  \E result \in getSessionByToken(user_sessions, sessionToken, now) :
    /\ last' = Call("getSessionByToken", NoToken, sessionToken, "none",
                    IF result = NULL THEN {}
                    ELSE {SessionPublic(user_sessions, result)})
    /\ UNCHANGED <<user_sessions, uuid, now>> /\ SessionUnchanged

CallUpdateSessionActivity(sessionId) ==
  /\ user_sessions' = updateSessionActivity(user_sessions, sessionId, now)
  /\ last' = Call("updateSessionActivity", NoToken, sessionId, "none", {})
  /\ UNCHANGED <<uuid, now>> /\ SessionUnchanged

CallDeleteSession(sessionId) ==
  /\ user_sessions' = deleteSession(user_sessions, sessionId)
  /\ last' = Call("deleteSession", NoToken, sessionId, "none", {})
  /\ UNCHANGED <<uuid, now>> /\ SessionUnchanged

CallDeleteExpiredSessions ==
  /\ user_sessions' = deleteExpiredSessions(user_sessions, now)
  /\ last' = Call("deleteExpiredSessions", NoToken, NULL, "none", {})
  /\ UNCHANGED <<uuid, now>> /\ SessionUnchanged

\* NOW() moves on
Tick ==
  /\ now < MaxTime
  /\ now' = now + 1
  /\ UNCHANGED <<user_sessions, uuid, last>> /\ SessionUnchanged

SessionTokens == {"t1", "t2"}
SessionUsers == {SchemaAdminId, SeparateAdminId}
\* expiresAt: Date
Expiries == 1..(MaxTime + 1)

NextSession ==
  \/ \E userId \in SessionUsers, sessionToken \in SessionTokens, expiresAt \in Expiries :
       CallCreateSession(userId, sessionToken, expiresAt)
  \/ \E sessionToken \in SessionTokens : CallGetSessionByToken(sessionToken)
  \/ \E sessionId \in DOMAIN user_sessions : CallUpdateSessionActivity(sessionId)
  \/ \E sessionId \in DOMAIN user_sessions : CallDeleteSession(sessionId)
  \/ CallDeleteExpiredSessions
  \/ Tick

SpecSession == Init /\ [][NextSession]_vars

----------------------------------------------------------------------------
\* Claims checked under SpecSession.

Unexpired(sessionToken) ==
  {i \in DOMAIN user_sessions :
     /\ user_sessions[i].session_token = sessionToken
     /\ user_sessions[i].expires_at \in Nat \ {NULL}
     /\ now < user_sessions[i].expires_at}

\* C8: getSessionByToken(t) never returns a session whose expires_at is at or
\* before the current time, whether or not the row is still in the table; it
\* returns the session stored for t exactly while that session's expires_at
\* is strictly in the future.
C8_ExpiredSessionRejected ==
  [][(Completes("getSessionByToken") /\ last' # last)
       => (/\ \A s \in last'.ret : s.expires_at # NULL /\ now < s.expires_at
           /\ last'.ret =
                {SessionPublic(user_sessions, i) : i \in Unexpired(last'.arg)})]_vars

C8_Witness ==
  /\ last.op = "getSessionByToken" /\ last.ret = {}
  /\ \E i \in DOMAIN user_sessions :
       /\ user_sessions[i].session_token = last.arg
       /\ user_sessions[i].expires_at = last.at
       /\ user_sessions[i].created_at < last.at

\* getSessionByToken would return session i now
Accepted(i) ==
  i \in getSessionByToken(user_sessions, user_sessions[i].session_token, now)
\* deleteExpiredSessions would remove session i now
Removable(i) == i \notin DOMAIN deleteExpiredSessions(user_sessions, now)

\* C29: deleteExpiredSessions removes exactly the sessions whose
\* expires_at is at or before the current time and leaves the other rows as
\* they are, none of the removed ones being a session getSessionByToken would
\* accept; and at every instant every session createSession stored is either
\* accepted by getSessionByToken or removable by deleteExpiredSessions, never
\* neither and never both.
C29_AcceptedOrRemovable ==
  /\ [](\A i \in DOMAIN user_sessions : Accepted(i) <=> ~Removable(i))
  /\ [][(last'.op = "deleteExpiredSessions" /\ last' # last)
         => \A i \in DOMAIN user_sessions :
              IF user_sessions[i].expires_at # NULL /\ user_sessions[i].expires_at <= now
              THEN i \notin DOMAIN user_sessions' /\ ~Accepted(i)
              ELSE i \in DOMAIN user_sessions' /\ user_sessions'[i] = user_sessions[i]]_vars

\* deleteExpiredSessions ran while one session expired at that very instant
\* and another a tick later: only the second is left, and it is accepted
C29_Witness ==
  /\ last.op = "deleteExpiredSessions" /\ last.at = now
  /\ uuid = SeparateAdminId + 2
  /\ \E i \in DOMAIN user_sessions :
       /\ DOMAIN user_sessions = {i}
       /\ user_sessions[i].expires_at = now + 1
       /\ user_sessions[i].created_at < now
       /\ Accepted(i)

----------------------------------------------------------------------------
\* SpecAdmin: every admin action, run one at a time with any token.

PackageData ==
  {[name |-> "Desktop Software", price |-> 4999],
   [name |-> "Rebate", price |-> 0 - 1],
   [name |-> "Basic", price |-> 10, currency |-> "", description |-> "d",
    features |-> Arr(<<"DIY">>), display_order |-> 1]}
PackageUpdates ==
  {[name |-> "Basic"], [price |-> 20, active |-> FALSE, description |-> ""], EmptyTable}
PackageIds == DOMAIN packages \cup {NULL}
LandingSettings == {"{\"hero\":\"a\"}", "0"}
Visitor == [name |-> "Bob", email |-> "bob@x.com", password |-> "pw123456", plan |-> ""]

NextAdmin ==
  \/ \E token \in Tokens : Len(audit_logs) < MaxAdminAudit /\ getUsers(token)
  \/ \E token \in Tokens :
       Len(audit_logs) < MaxAdminAudit /\ getUsersWithSubscriptions(token)
  \/ \E token \in Tokens : Len(audit_logs) < MaxAdminAudit /\ addUser(token, Visitor)
  \/ \E token \in Tokens, id \in DOMAIN users :
       Len(audit_logs) < MaxAdminAudit /\ updateUserAction(token, id, [plan |-> "Pro"])
  \/ \E token \in Tokens, id \in DOMAIN users :
       Len(audit_logs) < MaxAdminAudit /\ deleteUserAction(token, id)
  \/ \E token \in Tokens, settings \in LandingSettings :
       Len(audit_logs) < MaxAdminAudit /\ updateLandingSettings(token, settings)
  \/ \E token \in Tokens :
       Len(audit_logs) < MaxAdminAudit /\ changeAdminPassword(token, "newpass1")
  \/ \E token \in Tokens, data \in PackageData :
       Len(audit_logs) < MaxAdminAudit /\ createPackageAction(token, data)
  \/ \E token \in Tokens, id \in PackageIds, data \in PackageUpdates :
       Len(audit_logs) < MaxAdminAudit /\ updatePackageAction(token, id, data)
  \/ \E token \in Tokens, id \in PackageIds :
       Len(audit_logs) < MaxAdminAudit /\ deletePackageAction(token, id)
  \/ \E token \in Tokens :
       Len(audit_logs) < MaxAdminAudit /\ seedDefaultPackagesAction(token)

SpecAdmin == Init /\ [][NextAdmin]_vars

----------------------------------------------------------------------------
\* Claims checked under SpecAdmin.

AdminActions ==
  {"getUsers", "getUsersWithSubscriptions", "addUser", "updateUserAction",
   "deleteUserAction", "updateLandingSettings", "changeAdminPassword",
   "createPackageAction", "updatePackageAction", "deletePackageAction",
   "seedDefaultPackagesAction"}
AuthorizationErrors ==
  {"No token provided", "Invalid token", "Unauthorized or insufficient permissions"}

\* C9: an admin action called with a token that does not verify, or whose
\* embedded role is neither admin nor superadmin, throws an authorization
\* error, writes nothing to any table and returns no data.
C9_AdminActionsGuarded ==
  [][(/\ last'.op \in AdminActions
      /\ last' # last
      /\ ~AdminToken(last'.token))
     => (/\ last'.err \in AuthorizationErrors
         /\ last'.ret = {}
         /\ UNCHANGED db)]_vars

C9_Witness ==
  /\ last.op = "deleteUserAction"
  /\ last.token.kind = "jwt" /\ last.token.role = "user"
  /\ last.err = "Unauthorized or insufficient permissions"
  /\ last.arg \in DOMAIN users

----------------------------------------------------------------------------
\* SpecLogin: the admin login route, with any X-Forwarded-For header, between
\* the admin actions that create, suspend and delete accounts.

ForwardedChain == "2001:0db8:85a3:0000:0000:8a2e:0370:7334, 10.0.0.1"
LoginRequests ==
  [email : {AdminEmail, SeparateAdminEmail, "alice@x.com", "nobody@x.com"},
   password : {"", "admin@123", "pw123456"},
   forwarded : {"", "203.0.113.7", ForwardedChain}]

NextLogin ==
  \/ \E request \in LoginRequests :
       Len(audit_logs) < MaxLoginAudit /\ adminLogin(request)
  \/ \E token \in Tokens : Len(audit_logs) < MaxLoginAudit /\ addUser(token, Alice)
  \/ \E token \in Tokens, id \in DOMAIN users :
       Len(audit_logs) < MaxLoginAudit
         /\ updateUserAction(token, id, [status |-> "Cancelled"])
  \/ \E token \in Tokens, id \in DOMAIN users :
       Len(audit_logs) < MaxLoginAudit /\ deleteUserAction(token, id)

\* the pre-created admins row with any status of its column,
\* status ENUM('Active','Suspended','Cancelled')
InitLogin ==
  \E status \in {"Active", "Suspended", "Cancelled"} :
    InitialState([SchemaAdmins EXCEPT ![SeparateAdminId].status = status], 1)

SpecLogin == InitLogin /\ [][NextLogin]_vars

----------------------------------------------------------------------------
\* Claims checked under SpecLogin.

WithoutEmail(t, email) == Del(t, {i \in DOMAIN t : t[i].email = email})
WrongPassword(request) ==
  /\ request.password # ""
  /\ LoginAccount(admins, users, request.email) # {}
  /\ \A found \in LoginAccount(admins, users, request.email) :
       ~verifyPassword(request.password,
                       IF found.table = "admins" THEN admins[found.id].password_hash
                       ELSE users[found.id].password_hash)

\* C11 (as claimed): a login with a wrong password for a registered email
\* gets the response (status and body) that the same request gets when the
\* email is in neither table.
C11_SameFailureResponse ==
  [][(last'.op = "adminLogin" /\ last' # last /\ WrongPassword(last'.arg))
     => \E r \in POST(WithoutEmail(admins, last'.arg.email),
                      WithoutEmail(users, last'.arg.email),
                      audit_logs, uuid + 1, last'.arg, now) :
          r.status = last'.status /\ r.error = last'.err /\ r.ret = last'.ret]_vars

----------------------------------------------------------------------------
\* SpecSettings: calls of updateSiteSettings, statement by statement, and
\* reads of the settings between them.

\* updateSiteSettings, up to its first statement
BeginUpdateSiteSettings(newData) ==
  Begin("updateSiteSettings", NoToken, newData, Undefined, "none", "getSiteSettings")

\* const existing = await getSiteSettings(); if (existing) ...
StepGetSiteSettings(c) ==
  /\ calls[c].pc = "getSiteSettings"
  /\ \/ /\ getSiteSettings(site_settings) = {}
        /\ Goto(c, "executeInsert")
     \/ \E existing \in getSiteSettings(site_settings) :
          Goto(c, IF existing \notin FalsyDocuments THEN "executeUpdate"
                  ELSE "executeInsert")
  /\ UNCHANGED <<db, now, uuid, accounts, lastPassword, last>>

\* the UPDATE or the INSERT of updateSiteSettings, after which it returns
StepWriteSiteSettings(c) ==
  /\ calls[c].pc \in {"executeUpdate", "executeInsert"}
  /\ site_settings' = IF calls[c].pc = "executeUpdate"
                      THEN updateSettings(site_settings, calls[c].arg)
                      ELSE insertSettings(site_settings, calls[c].arg)
  /\ Goto(c, "done")
  /\ UNCHANGED <<users, admins, subscriptions, user_sessions, audit_logs, packages,
                 now, uuid, accounts, lastPassword, last>>

\* getLandingSettings: the public read
getLandingSettings ==
  /\ \/ /\ getSiteSettings(site_settings) = {}
        /\ last' = Call("getLandingSettings", NoToken, NULL, "none", {})
     \/ \E data \in getSiteSettings(site_settings) :
          last' = Call("getLandingSettings", NoToken, NULL, "none",
                       IF data = "null" THEN {} ELSE {data})
  /\ UNCHANGED <<db, now, uuid, accounts, lastPassword, calls>>

Documents == {"{\"hero\":\"a\"}", "{\"hero\":\"b\",\"stats\":[]}", "0"}

NextSettings ==
  \/ \E newData \in Documents : BeginUpdateSiteSettings(newData)
  \/ \E c \in DOMAIN calls : StepGetSiteSettings(c)
  \/ \E c \in DOMAIN calls : StepWriteSiteSettings(c)
  \/ getLandingSettings

SpecSettings == Init /\ [][NextSettings]_vars

----------------------------------------------------------------------------
\* Claims checked under SpecSettings.

\* C15 (as claimed): the site_settings table never holds more than one row.
C15_SettingsSingleton == Len(site_settings) <= 1

\* call c ran with no other call overlapping it
Sequential(c) ==
  /\ calls[c].during = {}
  /\ \A d \in DOMAIN calls \ {c} : d < c /\ calls[d].pc = "done"

\* C16 (as claimed): in a sequence of writes, when updateSiteSettings(d)
\* completes, getSiteSettings returns exactly d and nothing of an earlier
\* document; with no row it returns none.
C16_SettingsOverwrite ==
  [][/\ \A c \in DOMAIN calls :
          (calls[c].op = "updateSiteSettings" /\ calls[c].pc # "done"
             /\ calls'[c].pc = "done" /\ Sequential(c))
            => getSiteSettings(site_settings') = {calls[c].arg}
     /\ (last'.op = "getLandingSettings" /\ site_settings = <<>>) => last'.ret = {}]_vars

----------------------------------------------------------------------------
\* SpecPackages: the package catalog, edited by an admin one call at a time,
\* seeded by the action and by the script, and read back.

MaxPackageAudit == 2

CallGetPackageById(id) ==
  /\ last' = Call("getPackageById", NoToken, id, "none", getPackageById(packages, id))
  /\ UNCHANGED <<db, now, uuid, accounts, lastPassword, calls>>
CallGetPackageByName(name) ==
  /\ last' = Call("getPackageByName", NoToken, name, "none",
                  getPackageByName(packages, name))
  /\ UNCHANGED <<db, now, uuid, accounts, lastPassword, calls>>

PackageInputs ==
  {[name |-> "Basic", price |-> 10, features |-> Arr(<<"DIY", "API Access">>)],
   [name |-> "Basic", price |-> 10, features |-> Str("Priority Support")],
   [name |-> "Auto Server", price |-> 5999]}
PackageEdits ==
  {[name |-> "Auto Server"],
   [active |-> FALSE, features |-> Arr(<<"API Access", "DIY">>)]}
PackageNames == {"Basic", "Auto Server"}
Admins == {token \in Tokens : token.kind = "jwt" /\ token.role \in AdminRoles}

NextPackages ==
  \/ \E token \in Admins, data \in PackageInputs :
       createPackageAction(token, data) /\ Len(audit_logs') <= MaxPackageAudit
  \/ \E token \in Admins, id \in DOMAIN packages, data \in PackageEdits :
       updatePackageAction(token, id, data) /\ Len(audit_logs') <= MaxPackageAudit
  \/ \E token \in Admins, id \in DOMAIN packages :
       deletePackageAction(token, id) /\ Len(audit_logs') <= MaxPackageAudit
  \/ \E token \in Admins :
       seedDefaultPackagesAction(token) /\ Len(audit_logs') <= MaxPackageAudit
  \/ seedPackages
  \/ getPackagesAction
  \/ getActivePackagesAction
  \/ \E id \in DOMAIN packages : CallGetPackageById(id)
  \/ \E name \in PackageNames : CallGetPackageByName(name)

SpecPackages == Init /\ [][NextPackages]_vars

----------------------------------------------------------------------------
\* Claims checked under SpecPackages.

Seeds(op) == last'.op = op /\ last' # last
DefaultsOnly(pkgs) ==
  /\ Cardinality(DOMAIN pkgs) = Len(defaultPackages)
  /\ \A n \in 1..Len(defaultPackages) :
       \E p \in getPackageByName(pkgs, defaultPackages[n].name) :
         /\ p.price = defaultPackages[n].price
         /\ p.currency = defaultPackages[n].currency
         /\ p.description = {defaultPackages[n].description}
         /\ p.features = defaultPackages[n].features
         /\ p.display_order = defaultPackages[n].display_order
         /\ p.active

\* C17: seeding a catalog that holds a package changes no row and adds none:
\* seedDefaultPackagesAction fails with the error naming the package count
\* and writes no audit entry, the seed script returns without inserting;
\* seeding an empty catalog leaves exactly the three default packages.
C17_SeedOnlyWhenEmpty ==
  [][/\ (Seeds("seedDefaultPackagesAction") /\ packages # EmptyTable)
         => /\ last'.err = "Database already has "
                             \o CountText(Cardinality(DOMAIN packages))
                             \o " package(s). Delete existing packages first to re-seed."
            /\ packages' = packages
            /\ audit_logs' = audit_logs
     /\ (Seeds("seedPackages") /\ packages # EmptyTable) => packages' = packages
     /\ ((Seeds("seedDefaultPackagesAction") \/ Seeds("seedPackages"))
           /\ packages = EmptyTable)
         => last'.err = "none" /\ DefaultsOnly(packages')]_vars

C17_Witness ==
  /\ last.op = "seedDefaultPackagesAction"
  /\ last.err = "Database already has 3 package(s). Delete existing packages first to re-seed."
  /\ DefaultsOnly(packages)

\* C18: no two packages ever share a name; createPackage with the name of an
\* existing package fails with 'Package "<name>" already exists', updatePackage
\* renaming a package to another package's name fails with 'A package with
\* this name already exists', and both leave the catalog as it was.
C18_PackageNameUnique ==
  /\ [](\A a, b \in DOMAIN packages : a # b => packages[a].name # packages[b].name)
  /\ [][/\ (/\ last'.op = "createPackageAction" /\ last' # last
              /\ \E i \in DOMAIN packages : packages[i].name = last'.arg.name)
            => /\ last'.err = "Package \"" \o last'.arg.name \o "\" already exists"
               /\ packages' = packages
        /\ (/\ last'.op = "updatePackageAction" /\ last' # last
              /\ last'.arg[1] \in DOMAIN packages
              /\ "name" \in DOMAIN last'.arg[2]
              /\ \E i \in DOMAIN packages \ {last'.arg[1]} :
                   packages[i].name = last'.arg[2].name)
            => /\ last'.err = "A package with this name already exists"
               /\ packages' = packages]_vars

C18_Witness ==
  /\ last.op = "updatePackageAction"
  /\ last.err = "A package with this name already exists"
  /\ \E i \in DOMAIN packages \ {last.arg[1]} : packages[i].name = last.arg[2].name
  /\ Cardinality(DOMAIN packages) >= 2

PackageReads ==
  {"getPackagesAction", "getActivePackagesAction", "getPackageById", "getPackageByName"}

\* C19 (as claimed): a read of packages never fails and returns every
\* package's features as a list: the stored list when a serialized list is
\* stored (so what createPackage or updatePackage was given, in its order),
\* the empty list when nothing is stored, and a one-element list holding the
\* stored text when that is anything else.
C19_FeaturesAlwaysList ==
  [][(last'.op \in PackageReads /\ last' # last)
       => /\ last'.err = "none"
          /\ \A p \in last'.ret :
               LET stored == packages[p.id].features
               IN /\ p.features.type = "array"
                  /\ stored = {} => p.features = Arr(<<>>)
                  /\ \A text \in stored :
                       IF text.valid /\ text.value.type = "array"
                       THEN p.features = text.value
                       ELSE /\ Len(p.features.items) = 1
                            /\ ~text.valid => p.features = Arr(text.value.items)]_vars

----------------------------------------------------------------------------
\* SpecRenewal: a subscription activated on any day of the calendar.

MaxDay == 400

InitRenewal == \E t \in 1..MaxDay : InitialState(SchemaAdmins, t)
NextRenewal ==
  \E token \in Tokens, planName \in Plans : activateSubscription(token, planName)
SpecRenewal == InitRenewal /\ [][NextRenewal]_vars

\* C21 (as claimed): the renewal_date createSubscription stores and returns
\* is, as a date, the day of creation moved to the same day of month of the
\* following month, the year rolling over after December.
C21_RenewalNextMonth ==
  [][(last'.op = "activateSubscription" /\ last'.err = "none" /\ last' # last)
       => \A s \in last'.ret :
            LET created == toSqlDatetime(now)
                returned == toSqlDatetime(s.renewal_date)
                stored == toSqlDatetime(subscriptions'[s.id].renewal_date)
            IN /\ stored = returned
               /\ returned.day = created.day
               /\ returned.month = (created.month % 12) + 1
               /\ returned.year = created.year + (IF created.month = 12 THEN 1 ELSE 0)]_vars

----------------------------------------------------------------------------
\* Further claims checked under SpecAdmin.

\* C22 (as claimed): every package row has price >= 0, and a
\* createPackageAction or updatePackageAction carrying a negative price is
\* rejected and leaves the catalog unchanged.
C22_PriceNonNegative ==
  /\ [](\A i \in DOMAIN packages : packages[i].price >= 0)
  /\ [][/\ (/\ last'.op = "createPackageAction" /\ last' # last
              /\ AdminToken(last'.token) /\ last'.arg.price < 0)
            => last'.err # "none" /\ packages' = packages
        /\ (/\ last'.op = "updatePackageAction" /\ last' # last
              /\ AdminToken(last'.token) /\ "price" \in DOMAIN last'.arg[2]
              /\ last'.arg[2].price < 0)
            => last'.err # "none" /\ packages' = packages]_vars

----------------------------------------------------------------------------
\* Further claims checked under SpecRace.

\* C23 (as claimed): a logAuditAction whose actor is deleted by a concurrent
\* deleteUser between its lookup and its INSERT still appends its entry and
\* does not fail, and deleteUser's DELETE is never rejected because audit
\* entries reference the user.
C23_AuditDeleteIndependent ==
  [][\A c \in DOMAIN calls :
       /\ (/\ calls[c].pc = "logAuditInsert" /\ calls'[c].pc = "done"
            /\ calls[c].actor # NULL /\ calls[c].actor \notin DOMAIN users)
           => /\ calls'[c].err = "none"
              /\ Len(audit_logs') = Len(audit_logs) + 1
              /\ audit_logs'[Len(audit_logs')].action = AuditData(c).action
       /\ (/\ calls[c].pc = "deleteUser" /\ calls'[c].pc # "deleteUser"
            /\ \E i \in 1..Len(audit_logs) : audit_logs[i].user_id = calls[c].arg)
           => /\ calls'[c].err = "none"
              /\ calls[c].arg \notin DOMAIN users']_vars

\* the request that returned last about userId: it began when no request
\* about that user was in flight, and none began after it
LastAbout(c, userId) ==
  /\ Touches(c, userId)
  /\ \A d \in DOMAIN calls : Touches(d, userId) => d <= c
  /\ \A d \in calls[c].during : ~Touches(d, userId)

\* C25 (as claimed): whenever no action is mid-flight, a user with an Active
\* subscription has users.plan equal to that subscription's plan, and a user
\* whose last completed subscription action was a successful cancel has plan
\* Starter and no Active subscription, under every statement interleaving.
C25_PlanFollowsSubscription ==
  InFlight = {} =>
    \A u \in DOMAIN users :
      /\ \A s \in ActiveOf(u) : users[u].plan = subscriptions[s].plan
      /\ \A c \in DOMAIN calls :
           (/\ LastAbout(c, u)
            /\ calls[c].op = "cancelSubscription" /\ calls[c].err = "none")
             => users[u].plan = "Starter" /\ ActiveOf(u) = {}

----------------------------------------------------------------------------
\* SpecUpdate: rows created by addUser, activateSubscription and the seed
\* script, then updated on later days.

\* the ids a run may use up, and the days it may last
MaxUpdateId == 6
MaxUpdateDay == 2

CallUpdateSubscription(subscriptionId, data) ==
  LET r == updateSubscription(subscriptions, subscriptionId, data, now)
  IN /\ subscriptions' = r.subscriptions
     /\ last' = Call("updateSubscription", NoToken, <<subscriptionId, data>>, r.err, {})
     /\ UNCHANGED <<users, admins, user_sessions, audit_logs, site_settings, packages,
                    now, uuid, accounts, lastPassword, calls>>

UserEdits ==
  {[email |-> AdminEmail], [name |-> "Bob", status |-> "Cancelled"],
   [plan |-> "Expert"], EmptyTable}
SubscriptionUpdates ==
  {[plan |-> "Expert"], [status |-> "Cancelled", renewal_date |-> 45], EmptyTable}

\* the pre-installed admin's token
Installed == {token \in Admins : token.userId = SchemaAdminId}

NextUpdate ==
  \/ \E token \in Installed : addUser(token, Alice) /\ uuid' <= MaxUpdateId
  \/ \E token \in Installed :
       activateSubscription(token, "Pro") /\ uuid' <= MaxUpdateId
  \/ seedPackages /\ uuid' <= MaxUpdateId
  \/ \E token \in Installed, id \in DOMAIN users, data \in UserEdits :
       updateUserAction(token, id, data) /\ uuid' <= MaxUpdateId
  \/ \E token \in Installed, id \in DOMAIN packages, data \in PackageUpdates :
       updatePackageAction(token, id, data) /\ uuid' <= MaxUpdateId
  \/ \E id \in DOMAIN subscriptions, data \in SubscriptionUpdates :
       CallUpdateSubscription(id, data)
  \/ Tick /\ now' <= MaxUpdateDay

SpecUpdate == Init /\ [][NextUpdate]_vars

----------------------------------------------------------------------------
\* Claims checked under SpecUpdate.

\* table2 is table with the columns of expect written on row id, every other
\* row and every other column (but the exempt ones) as before
UpdateFrame(table, table2, id, expect, exempt) ==
  /\ DOMAIN table2 = DOMAIN table
  /\ \A k \in DOMAIN table \ {id} : table2[k] = table[k]
  /\ id \in DOMAIN table =>
       \A c \in DOMAIN table[id] \ exempt :
         table2[id][c] = IF c \in DOMAIN expect THEN expect[c] ELSE table[id][c]

\* the stored form of the fields given to updatePackage
PackageColumns(data) ==
  [c \in DOMAIN data |->
     IF c = "description" THEN (IF data[c] = "" THEN {} ELSE {data[c]})
     ELSE IF c = "features" THEN {JSONstringify(data[c])}
     ELSE data[c]]

Updates(op) == last'.op = op /\ last' # last
OnlyGivenFields(exempt) ==
  /\ Updates("updateUserAction") =>
       IF last'.err = "none" /\ DOMAIN last'.arg[2] # {}
       THEN UpdateFrame(users, users', last'.arg[1], last'.arg[2], exempt)
       ELSE users' = users
  /\ Updates("updateSubscription") =>
       IF last'.err = "none" /\ DOMAIN last'.arg[2] # {}
       THEN UpdateFrame(subscriptions, subscriptions', last'.arg[1], last'.arg[2], exempt)
       ELSE subscriptions' = subscriptions
  /\ Updates("updatePackageAction") =>
       IF last'.err = "none" /\ DOMAIN last'.arg[2] # {}
       THEN /\ UpdateFrame(packages, packages', last'.arg[1],
                           PackageColumns(last'.arg[2]), {"updated_at"})
            /\ packages'[last'.arg[1]].updated_at = now
       ELSE packages' = packages

\* C24 (as claimed): updateUser, updateSubscription and updatePackage write
\* exactly the fields of their update set on the row with the id, leave
\* every other field of the row and every other row unchanged (updatePackage
\* also refreshes updated_at), and write nothing for an empty update set.
C24_OnlyGivenFieldsAsClaimed == [][OnlyGivenFields({})]_vars

\* C24 (amended): as claimed, except that on users and subscriptions the
\* row's updated_at is also refreshed, to the current time, when the UPDATE
\* changes the row.
C24_OnlyGivenFields ==
  [][/\ OnlyGivenFields({"updated_at"})
     /\ \A k \in DOMAIN users \cap DOMAIN users' :
          users'[k].updated_at = IF users'[k] # users[k] THEN now
                                 ELSE users[k].updated_at
     /\ \A k \in DOMAIN subscriptions \cap DOMAIN subscriptions' :
          subscriptions'[k].updated_at = IF subscriptions'[k] # subscriptions[k] THEN now
                                         ELSE subscriptions[k].updated_at]_vars

C24_Witness ==
  /\ last.op = "updateUserAction" /\ last.err = "none"
  /\ last.arg[2] = [name |-> "Bob", status |-> "Cancelled"]
  /\ last.arg[1] \in DOMAIN users
  /\ users[last.arg[1]].name = "Bob"
  /\ users[last.arg[1]].email = Alice.email
  /\ users[last.arg[1]].updated_at = now /\ now > 1

----------------------------------------------------------------------------
\* SpecSeed: concurrent seedings of the catalog, by seedDefaultPackagesAction
\* and by scripts/seed-packages.js, one database statement per step.  For a
\* seeding request calls[c].arg is the number of packages it has created.

\* seedDefaultPackagesAction, up to its first statement
BeginSeed(token) ==
  \E a \in verifyAdminRole(token) :
    Begin("seedDefaultPackagesAction", token, 0, a.userId, a.err, "getAllPackages")
\* the seed script, up to its first statement
BeginSeedScript == Begin("seedPackages", NoToken, 0, Undefined, "none", "getAllPackages")

\* the check for existing packages: getAllPackages(false) in the action,
\* SELECT COUNT(*) in the script, which skips the seeding and returns
StepCountPackages(c) ==
  /\ calls[c].pc = "getAllPackages"
  /\ LET existingPackages == getAllPackages(packages, FALSE)
     IN IF Cardinality(existingPackages) = 0 THEN Goto(c, "createPackage")
        ELSE IF calls[c].op = "seedPackages" THEN Goto(c, "done")
        ELSE Throw(c, "Database already has "
                        \o CountText(Cardinality(existingPackages))
                        \o " package(s). Delete existing packages first to re-seed.")
  /\ UNCHANGED <<db, now, uuid, accounts, lastPassword, last>>

\* one turn of the loop over defaultPackages: createPackage in the action; the
\* script's own INSERT stores the same row and leaves the script on an error
StepInsertPackage(c) ==
  /\ calls[c].pc = "createPackage"
  /\ LET r == createPackage(packages, uuid + 1, defaultPackages[calls[c].arg + 1], now)
         after == IF calls[c].arg + 1 < Len(defaultPackages) THEN "createPackage"
                  ELSE IF calls[c].op = "seedPackages" THEN "done"
                  ELSE "logAuditLookup"
     IN IF r.err # "none"
        THEN /\ Throw(c, IF calls[c].op = "seedPackages" THEN "ER_DUP_ENTRY" ELSE r.err)
             /\ UNCHANGED <<packages, uuid>>
        ELSE /\ packages' = r.packages
             /\ uuid' = uuid + 1
             /\ calls' = [calls EXCEPT ![c].pc = after, ![c].arg = calls[c].arg + 1]
  /\ UNCHANGED <<users, admins, subscriptions, user_sessions, audit_logs,
                 site_settings, now, accounts, lastPassword, last>>

NextSeed ==
  \/ \E token \in Tokens : BeginSeed(token)
  \/ BeginSeedScript
  \/ \E c \in DOMAIN calls : StepCountPackages(c)
  \/ \E c \in DOMAIN calls : StepInsertPackage(c)
  \/ \E c \in DOMAIN calls : StepAuditLookup(c)
  \/ \E c \in DOMAIN calls : StepAuditInsert(c)

SpecSeed == Init /\ [][NextSeed]_vars

\* request c is a seeding that began on an empty catalog and was let in
SeedsFromEmpty(c) ==
  /\ calls[c].op \in {"seedDefaultPackagesAction", "seedPackages"}
  /\ calls[c].empty0
  /\ calls[c].err \notin AuthorizationErrors
\* request c has created every default package and returned without error
Seeded(c) ==
  calls[c].pc = "done" /\ calls[c].err = "none" /\ calls[c].arg = Len(defaultPackages)
DefaultNames == {defaultPackages[n].name : n \in 1..Len(defaultPackages)}

\* C30: of two seedings (seedDefaultPackagesAction calls, or a call and the
\* seed script) that began on an empty catalog, whatever the order of their
\* statements, at most one completes successfully, and once both (and any
\* seeding begun beside them) have finished the catalog holds exactly the
\* three default packages, each once.
C30_ConcurrentSeedOnce ==
  \A c1, c2 \in DOMAIN calls :
    (c1 # c2 /\ SeedsFromEmpty(c1) /\ SeedsFromEmpty(c2))
      => /\ ~(Seeded(c1) /\ Seeded(c2))
         /\ InFlight = {}
              => /\ {packages[i].name : i \in DOMAIN packages} = DefaultNames
                 /\ Cardinality(DOMAIN packages) = Len(defaultPackages)
\* the script and an admin's call both found the catalog empty; the script
\* inserted first and the call failed on the first package's name
C30_Witness ==
  \E c1, c2 \in DOMAIN calls :
    /\ SeedsFromEmpty(c1) /\ SeedsFromEmpty(c2)
    /\ calls[c1].op = "seedPackages" /\ Seeded(c1)
    /\ calls[c2].op = "seedDefaultPackagesAction" /\ calls[c2].pc = "done"
    /\ calls[c2].err = "Package \"Desktop Software\" already exists"
    /\ InFlight = {}
    /\ Cardinality(DOMAIN packages) = Len(defaultPackages)

====
